---- MODULE Spec2Model ----
(***************************************************************************)
(* Model of the model-metadata reader of enhanced-filesystem-mcp           *)
(* (src/src/core/editor.ts): the Safetensors and GGUF parsers,             *)
(* getModelInfo, listModels and the info, list, search and compare         *)
(* operations of executeModelOperation; and of the batch executor          *)
(* (src/src/core/batch.ts).                                                *)
(*                                                                         *)
(* Files are byte sequences.  Positioned reads beyond the end of a file    *)
(* return no bytes and leave the zero-filled buffer untouched, as          *)
(* fs.readSync into Buffer.alloc(n) does.  JavaScript numbers are kept     *)
(* exact: a value below 2^31 is [n |-> v]; a larger magnitude is           *)
(* [big |-> little-endian bytes, neg |-> sign] rounded to the nearest      *)
(* double, because TLC's integers are 32 bits wide.                        *)
(***************************************************************************)
EXTENDS Integers, Sequences, FiniteSets, TLC

VARIABLES
  file,      \* the file the call inspects: [path, exists, data, src]; see Data
  pc,        \* position of the getModelInfo call
  info,      \* the ModelInfo under construction (fields absent until set)
  reader,    \* the GGUFReader / parser locals: [offset, i, version, ...]
  reads,     \* positioned reads issued so far: sequence of [pos, len]
  fds,       \* descriptors: number opened and number closed by the call
  exc,       \* the exception: "none", "inflight", "caught" or "escaped"
  report,    \* lines returned by executeModelOperation('info')
  rv,        \* a stand-alone readValue call: [buf, off, type, st, out, src]
  ls,        \* a listModels call: [op, directory, recursive, fs, stack, models, ...]
  cmp,       \* a compare operation: its two getModelInfo calls and its report
  bt,        \* an efs_batch call: [fs, operations, atomic, parallel, backups, ...]
  tm,      \* the reader followed read by read (termination)
  tx,      \* TransactionManager: one transaction and the files
  py,      \* PythonSessionManager: one session and its calls
  fc       \* FileReader, FileWriter and the cache over one file

vars == <<file, pc, info, reader, reads, fds, exc, report, rv, ls, cmp, bt, tm, tx, py, fc>>
mvars == <<file, pc, info, reader, reads, fds, exc, report, ls, cmp, bt, tm, tx, py, fc>>

(***************************************************************************)
(* Characters and strings.  A string is a sequence of one-character        *)
(* strings; Ascii lists the printable characters, code 32 to code 126      *)
(* (the grave accent, code 96, cannot be written in a TLA+ string and is   *)
(* spelled "<96>").                                                        *)
(***************************************************************************)
Ascii ==
  << " ", "!", "\"", "#", "$", "%", "&", "'", "(", ")", "*", "+", ",", "-", ".", "/",
     "0", "1", "2", "3", "4", "5", "6", "7", "8", "9", ":", ";", "<", "=", ">", "?",
     "@", "A", "B", "C", "D", "E", "F", "G", "H", "I", "J", "K", "L", "M", "N", "O",
     "P", "Q", "R", "S", "T", "U", "V", "W", "X", "Y", "Z", "[", "\\", "]", "^", "_",
     "<96>", "a", "b", "c", "d", "e", "f", "g", "h", "i", "j", "k", "l", "m", "n", "o",
     "p", "q", "r", "s", "t", "u", "v", "w", "x", "y", "z", "{", "|", "}", "~" >>

OrdOf == [c \in {Ascii[i] : i \in 1..Len(Ascii)} |->
            31 + (CHOOSE i \in 1..Len(Ascii) : Ascii[i] = c)]

\* The bytes a writer stores for an ASCII string (used to build input files).
Bytes(str) == [i \in 1..Len(str) |-> OrdOf[str[i]]]

\* One decoded character: printable ASCII as itself, control codes by number,
\* a byte that is no ASCII character as the replacement character.
Chr(b) ==
  IF b >= 32 /\ b <= 126 THEN Ascii[b - 31]
  ELSE IF b >= 128 THEN "<U+FFFD>"
  ELSE "<" \o ToString(b) \o ">"

\* Buffer.toString('utf-8'), for buffers holding ASCII and stray high bytes.
Utf8Decode(buf) == [i \in 1..Len(buf) |-> Chr(buf[i])]

\* Buffer.toString('ascii'): the highest bit of each byte is unset before decoding.
AsciiDecode(buf) == [i \in 1..Len(buf) |-> Chr(buf[i] % 128)]

IsUpperChar(c) == c \in DOMAIN OrdOf /\ OrdOf[c] >= 65 /\ OrdOf[c] <= 90
IsLowerChar(c) == c \in DOMAIN OrdOf /\ OrdOf[c] >= 97 /\ OrdOf[c] <= 122

toLowerCase(str) ==
  [i \in 1..Len(str) |-> IF IsUpperChar(str[i]) THEN Chr(OrdOf[str[i]] + 32) ELSE str[i]]

toUpperCase(str) ==
  [i \in 1..Len(str) |-> IF IsLowerChar(str[i]) THEN Chr(OrdOf[str[i]] - 32) ELSE str[i]]

\* String.prototype.includes
includes(hay, needle) ==
  \E k \in 0..(Len(hay) - Len(needle)) : SubSeq(hay, k + 1, k + Len(needle)) = needle

\* Positions of a character in a string.
Positions(str, c) == {k \in 1..Len(str) : str[k] = c}

Max(S) == CHOOSE m \in S : \A o \in S : o <= m
Min(S) == CHOOSE m \in S : \A o \in S : m <= o

\* path.basename: the part after the last separator.
basename(p) ==
  IF Positions(p, "/") = {} THEN p ELSE SubSeq(p, Max(Positions(p, "/")) + 1, Len(p))

\* path.extname: from the last "." of the base name, empty when there is none or
\* when the only "." is the first character of the base name.
extname(p) ==
  LET b == basename(p)
      dots == Positions(b, ".")
  IN  IF dots = {} \/ Max(dots) = 1 THEN <<>> ELSE SubSeq(b, Max(dots), Len(b))

(***************************************************************************)
(* Numbers.  A magnitude is a little-endian byte sequence without high     *)
(* zero bytes.                                                             *)
(***************************************************************************)
RECURSIVE Strip(_)
Strip(bs) == IF bs # <<>> /\ bs[Len(bs)] = 0 THEN Strip(SubSeq(bs, 1, Len(bs) - 1)) ELSE bs

RECURSIVE LEValue(_)
LEValue(bs) == IF bs = <<>> THEN 0 ELSE bs[1] + 256 * LEValue(Tail(bs))

Fits31(mag) == Len(mag) <= 3 \/ (Len(mag) = 4 /\ mag[4] < 128)

Pow2(k) == IF k = 0 THEN 1 ELSE IF k = 1 THEN 2 ELSE IF k = 2 THEN 4 ELSE IF k = 3 THEN 8
           ELSE IF k = 4 THEN 16 ELSE IF k = 5 THEN 32 ELSE IF k = 6 THEN 64 ELSE 128

BitsOf(mag) == [k \in 1..(8 * Len(mag)) |-> (mag[((k - 1) \div 8) + 1] \div Pow2((k - 1) % 8)) % 2]

BytesOfBits(bits) ==
  [j \in 1..((Len(bits) + 7) \div 8) |->
     LET RECURSIVE val(_)
         val(k) == IF k > 8 \/ 8 * (j - 1) + k > Len(bits) THEN 0
                   ELSE bits[8 * (j - 1) + k] * Pow2(k - 1) + val(k + 1)
     IN  val(1)]

\* bits + 2^(pos-1), the carry running upwards.
RECURSIVE AddBit(_, _)
AddBit(bits, pos) ==
  IF pos > Len(bits) THEN Append(bits, 1)
  ELSE IF bits[pos] = 0 THEN [bits EXCEPT ![pos] = 1]
  ELSE AddBit([bits EXCEPT ![pos] = 0], pos + 1)

\* The bits below bit s + 1 rounded away, to nearest, ties to even.
RoundedBits(bits, s) ==
  IF bits[s] = 1 /\ ((\E k \in 1..(s - 1) : bits[k] = 1) \/ bits[s + 1] = 1)
  THEN AddBit([k \in 1..Len(bits) |-> IF k <= s THEN 0 ELSE bits[k]], s + 1)
  ELSE [k \in 1..Len(bits) |-> IF k <= s THEN 0 ELSE bits[k]]

\* The highest set bit of a magnitude without high zero bytes.
TopBit(bits) == Max({k \in 1..Len(bits) : bits[k] = 1})

RoundAt(mag, bits, top) ==
  IF top <= 53 THEN mag ELSE Strip(BytesOfBits(RoundedBits(bits, top - 53)))

RoundBits(mag, bits) == RoundAt(mag, bits, TopBit(bits))

\* The magnitude of the double nearest to an integer magnitude (53 significant
\* bits, ties to even): the narrowing Number(bigint) performs.
RoundDouble(mag) == RoundBits(mag, BitsOf(mag))

JSNumOf(neg, m) ==
  IF Fits31(m) THEN [n |-> IF neg THEN 0 - LEValue(m) ELSE LEValue(m)]
  ELSE [big |-> RoundDouble(m), neg |-> neg]

\* A JavaScript number holding the integer with this sign and magnitude.
JSNum(neg, mag) == JSNumOf(neg, Strip(mag))

RECURSIVE Increment(_, _)
Increment(b, k) ==
  IF k > Len(b) THEN b
  ELSE IF b[k] < 255 THEN [b EXCEPT ![k] = b[k] + 1]
  ELSE Increment([b EXCEPT ![k] = 0], k + 1)

\* The magnitude of a negative two's-complement value: 2^(8*Len) - value.
Negate(buf) == Increment([k \in 1..Len(buf) |-> 255 - buf[k]], 1)

\* Buffer.readUInt8 / readUInt16LE / readUInt32LE, and Number(readBigUInt64LE).
UnsignedOf(buf) == JSNum(FALSE, buf)

\* Buffer.readInt8 / readInt16LE / readInt32LE, and Number(readBigInt64LE).
SignedOf(buf) ==
  IF buf[Len(buf)] >= 128 THEN JSNum(TRUE, Negate(buf)) ELSE JSNum(FALSE, buf)

IsSmall(num) == "n" \in DOMAIN num

\* num > limit, for a limit below 2^31.
GreaterThan(num, limit) == IF IsSmall(num) THEN num.n > limit ELSE ~num.neg

\* num < limit, for a limit below 2^31.
LessThan(num, limit) == IF IsSmall(num) THEN num.n < limit ELSE num.neg

(***************************************************************************)
(* JavaScript values.  A value is a record whose field names tell its kind:*)
(* [n] or [big, neg] a number, [s] a string, [b] a boolean, [arr] an array,*)
(* [obj] an object (ordered entries), [f32] / [f64] the bits of a float,   *)
(* [nul] null, [undef] undefined, [ph] the oversized-array placeholder.    *)
(***************************************************************************)
Undefined == [undef |-> TRUE]
IsUndefined(v) == "undef" \in DOMAIN v
IsString(v) == "s" \in DOMAIN v
IsArray(v) == "arr" \in DOMAIN v
IsObject(v) == "obj" \in DOMAIN v
IsNumber(v) == "n" \in DOMAIN v \/ "big" \in DOMAIN v

Str(chars) == [s |-> chars]

\* The float whose little-endian bits are buf is 0, -0 or NaN.
FloatFalsy(buf, expBits) ==
  LET bits == BitsOf(buf)
      w == Len(bits)
      mant == \E k \in 1..(w - 1 - expBits) : bits[k] = 1
      expAll1 == \A k \in (w - expBits)..(w - 1) : bits[k] = 1
      exp0 == \A k \in (w - expBits)..(w - 1) : bits[k] = 0
  IN  (exp0 /\ ~mant) \/ (expAll1 /\ mant)

\* ToBoolean, as the operators ||, && and if apply it.
Truthy(v) ==
  IF "undef" \in DOMAIN v \/ "nul" \in DOMAIN v THEN FALSE
  ELSE IF "n" \in DOMAIN v THEN v.n # 0
  ELSE IF "s" \in DOMAIN v THEN v.s # <<>>
  ELSE IF "b" \in DOMAIN v THEN v.b
  ELSE IF "f32" \in DOMAIN v THEN ~FloatFalsy(v.f32, 8)
  ELSE IF "f64" \in DOMAIN v THEN ~FloatFalsy(v.f64, 11)
  ELSE IF "nan" \in DOMAIN v THEN FALSE
  ELSE TRUE

\* a || b
Or(a, b) == IF Truthy(a) THEN a ELSE b

Digits == <<"0", "1", "2", "3", "4", "5", "6", "7", "8", "9">>

RECURSIVE DecStr(_)
DecStr(k) == IF k < 10 THEN <<Digits[k + 1]>> ELSE DecStr(k \div 10) \o <<Digits[(k % 10) + 1]>>

\* String(v), as a template literal applies it.  Numbers of 2^31 and more,
\* floats and objects are not spelled out: they become a marker character.
RECURSIVE ToStr(_)
ToStr(v) ==
  IF "s" \in DOMAIN v THEN v.s
  ELSE IF "undef" \in DOMAIN v THEN <<"u", "n", "d", "e", "f", "i", "n", "e", "d">>
  ELSE IF "nul" \in DOMAIN v THEN <<"n", "u", "l", "l">>
  ELSE IF "n" \in DOMAIN v THEN (IF v.n < 0 THEN <<"-">> \o DecStr(0 - v.n) ELSE DecStr(v.n))
  ELSE IF "b" \in DOMAIN v THEN (IF v.b THEN <<"t", "r", "u", "e">> ELSE <<"f", "a", "l", "s", "e">>)
  ELSE IF "arr" \in DOMAIN v THEN
    LET RECURSIVE join(_)
        join(k) == IF k > Len(v.arr) THEN <<>>
                   ELSE (IF k > 1 THEN <<",">> ELSE <<>>) \o ToStr(v.arr[k]) \o join(k + 1)
    IN  join(1)
  ELSE <<"<value>">>

(***************************************************************************)
(* Objects: ordered entries [k, v].  A key that is an array index sorts    *)
(* before the string keys, in ascending numeric order; the other keys keep *)
(* their insertion order (OrdinaryOwnPropertyKeys).                        *)
(***************************************************************************)
IsIndexKey(k) ==
  /\ Len(k) >= 1 /\ Len(k) <= 9
  /\ \A j \in 1..Len(k) : k[j] \in {Digits[d] : d \in 1..10}
  /\ (Len(k) > 1 => k[1] # "0")

IndexOf(k) == LET RECURSIVE val(_)
                  val(j) == IF j = 0 THEN 0
                            ELSE 10 * val(j - 1) + ((CHOOSE d \in 1..10 : Digits[d] = k[j]) - 1)
              IN  val(Len(k))

HasKey(obj, key) == \E j \in 1..Len(obj) : obj[j].k = key

\* obj[key]
ObjGet(obj, key) ==
  IF HasKey(obj, key) THEN obj[CHOOSE j \in 1..Len(obj) : obj[j].k = key].v ELSE Undefined

\* obj[key] = val
ObjSet(obj, key, val) ==
  IF HasKey(obj, key)
  THEN [j \in 1..Len(obj) |-> IF obj[j].k = key THEN [k |-> key, v |-> val] ELSE obj[j]]
  ELSE IF IsIndexKey(key)
  THEN LET before == {j \in 1..Len(obj) : IsIndexKey(obj[j].k) /\ IndexOf(obj[j].k) < IndexOf(key)}
           at == Cardinality(before)
       IN  SubSeq(obj, 1, at) \o <<[k |-> key, v |-> val]>> \o SubSeq(obj, at + 1, Len(obj))
  ELSE Append(obj, [k |-> key, v |-> val])

Keys(obj) == {obj[j].k : j \in 1..Len(obj)}

(***************************************************************************)
(* GGUFReader (editor.ts 561-622).  Each read takes the file's bytes and   *)
(* the cursor and yields [ok, val, off]: the value and the cursor after    *)
(* the read, or [ok |-> FALSE, msg, off] when it throws.                   *)
(***************************************************************************)
MaxStringLen == 10485760
MaxArrayLen == 100000
MaxKV == 500
MaxHeaderSize == 104857600

\* Buffer.alloc(length) filled by fs.readSync(fd, buffer, 0, length, off): the
\* bytes the file has from off on, zeros where the file has ended.
readBytes(data, off, length) ==
  [k \in 1..length |-> IF off + k <= Len(data) THEN data[off + k] ELSE 0]

readUint32(data, off) ==
  [ok |-> TRUE, val |-> UnsignedOf(readBytes(data, off, 4)), off |-> off + 4]

\* A 64-bit read that keeps the low 32 bits only.
readUint64Low32(data, off) ==
  [ok |-> TRUE, val |-> UnsignedOf(readBytes(data, off, 4)), off |-> off + 8]

\* Number(reader.readUint64())
readUint64(data, off) ==
  [ok |-> TRUE, val |-> UnsignedOf(readBytes(data, off, 8)), off |-> off + 8]

readStringOf(data, off, length) ==
  IF GreaterThan(length, MaxStringLen)
  THEN [ok |-> FALSE, msg |-> [text |-> "String too long", arg |-> Undefined], off |-> off + 8]
  ELSE [ok |-> TRUE, val |-> Str(Utf8Decode(readBytes(data, off + 8, length.n))),
        off |-> off + 8 + length.n]

\* Lines 589-593: the length, the limit, the bytes.
readString(data, off) == readStringOf(data, off, UnsignedOf(readBytes(data, off, 8)))

\* A fixed-width read that always moves the cursor by one byte.
FixedByOne(data, off, width, val) == [ok |-> TRUE, val |-> val, off |-> off + 1]

\* Lines 597-604 and 616-618: a value of `width` bytes at the cursor.
Fixed(data, off, width, val) == [ok |-> TRUE, val |-> val, off |-> off + width]

RECURSIVE readValue(_, _, _)
RECURSIVE readItems(_, _, _, _, _)
RECURSIVE readItemsNext(_, _, _, _, _)

\* An array branch whose placeholder also steps over one byte per element.
readArraySkipping(data, off, arrayType, arrayLen) ==
  IF GreaterThan(arrayLen, MaxArrayLen)
  THEN [ok |-> TRUE, val |-> [ph |-> arrayLen],
        off |-> IF IsSmall(arrayLen) THEN off + 12 + arrayLen.n ELSE off + 13]
  ELSE readItems(data, off + 12, arrayType, arrayLen.n, <<>>)

readArrayOf(data, off, arrayType, arrayLen) ==
  IF GreaterThan(arrayLen, MaxArrayLen)
  THEN [ok |-> TRUE, val |-> [ph |-> arrayLen], off |-> off + 12]
  ELSE readItems(data, off + 12, arrayType, arrayLen.n, <<>>)

\* Lines 606-615: the element type, the count, then the placeholder or the
\* element loop.
readArray(data, off) ==
  readArrayOf(data, off, UnsignedOf(readBytes(data, off, 4)), UnsignedOf(readBytes(data, off + 4, 8)))

\* The loop of lines 611-613 with `remaining` elements still to read.
readItems(data, off, arrayType, remaining, items) ==
  IF remaining = 0 THEN [ok |-> TRUE, val |-> [arr |-> items], off |-> off]
  ELSE readItemsNext(data, arrayType, remaining, items, readValue(data, off, arrayType))

readItemsNext(data, arrayType, remaining, items, r) ==
  IF r.ok THEN readItems(data, r.off, arrayType, remaining - 1, Append(items, r.val))
  ELSE r

readValue(data, off, type) ==
  IF ~IsSmall(type) \/ type.n < 0 \/ type.n > 12
  THEN [ok |-> FALSE, msg |-> [text |-> "Unknown GGUF type", arg |-> type], off |-> off]
  ELSE CASE type.n = 0 -> Fixed(data, off, 1, UnsignedOf(readBytes(data, off, 1)))
         [] type.n = 1 -> Fixed(data, off, 1, SignedOf(readBytes(data, off, 1)))
         [] type.n = 2 -> Fixed(data, off, 2, UnsignedOf(readBytes(data, off, 2)))
         [] type.n = 3 -> Fixed(data, off, 2, SignedOf(readBytes(data, off, 2)))
         [] type.n = 4 -> readUint32(data, off)
         [] type.n = 5 -> Fixed(data, off, 4, SignedOf(readBytes(data, off, 4)))
         [] type.n = 6 -> Fixed(data, off, 4, [f32 |-> readBytes(data, off, 4)])
         [] type.n = 7 -> Fixed(data, off, 1, [b |-> readBytes(data, off, 1)[1] # 0])
         [] type.n = 8 -> readString(data, off)
         [] type.n = 9 -> readArray(data, off)
         [] type.n = 10 -> readUint64(data, off)
         [] type.n = 11 -> Fixed(data, off, 8, SignedOf(readBytes(data, off, 8)))
         [] type.n = 12 -> Fixed(data, off, 8, [f64 |-> readBytes(data, off, 8)])

\* A loop body that files the key before its value is decoded.
readPairKeyFirst(key, value) ==
  IF ~value.ok THEN [ok |-> TRUE, key |-> key.val.s, val |-> Undefined, off |-> value.off]
  ELSE [ok |-> TRUE, key |-> key.val.s, val |-> value.val, off |-> value.off]

readPairValue(key, value) ==
  IF ~value.ok THEN value
  ELSE [ok |-> TRUE, key |-> key.val.s, val |-> value.val, off |-> value.off]

readPairType(data, key, valueType) ==
  readPairValue(key, readValue(data, valueType.off, valueType.val))

readPairKey(data, key) ==
  IF ~key.ok THEN key ELSE readPairType(data, key, readUint32(data, key.off))

\* One pass of the body of the key/value loop (lines 651-654): the key, the
\* type tag and the value, [ok, key, val, off] or the first throw.
readPair(data, off) == readPairKey(data, readString(data, off))

(***************************************************************************)
(* JSON.parse, for the JSON the input files hold: objects, arrays, strings *)
(* without escape sequences, non-negative integers of up to nine digits,   *)
(* true, false and null.  Every other text is rejected, which is what      *)
(* JSON.parse does with a truncated text, with a text followed by          *)
(* anything but white space, and with a text holding a NUL.  A parse       *)
(* yields [ok, val, pos]: the value and the position after it.             *)
(***************************************************************************)
JsonFail == [ok |-> FALSE]

ControlChars == {Chr(b) : b \in 0..31}

IsWs(c) == c \in {" ", "<9>", "<10>", "<13>"}
IsDigit(c) == c \in {Digits[d] : d \in 1..10}

RECURSIVE SkipWs(_, _)
SkipWs(t, p) == IF p <= Len(t) /\ IsWs(t[p]) THEN SkipWs(t, p + 1) ELSE p

\* The closing quote of the string whose first character is at p, 0 if none.
RECURSIVE StringEnd(_, _)
StringEnd(t, p) ==
  IF p > Len(t) THEN 0
  ELSE IF t[p] = "\"" THEN p
  ELSE IF t[p] = "\\" \/ t[p] \in ControlChars THEN 0
  ELSE StringEnd(t, p + 1)

RECURSIVE NumberEnd(_, _)
NumberEnd(t, p) == IF p <= Len(t) /\ IsDigit(t[p]) THEN NumberEnd(t, p + 1) ELSE p

IsLiteral(t, p, word) == p + Len(word) - 1 <= Len(t) /\ SubSeq(t, p, p + Len(word) - 1) = word

RECURSIVE JsonValue(_, _)
RECURSIVE JsonMembers(_, _, _)
RECURSIVE JsonElements(_, _, _)

JsonOk(val, pos) == [ok |-> TRUE, val |-> val, pos |-> pos]

JsonString(t, p, e) == IF e = 0 THEN JsonFail ELSE JsonOk(Str(SubSeq(t, p + 1, e - 1)), e + 1)

JsonNumber(t, p, e) ==
  IF (t[p] = "0" /\ e > p + 1) \/ e - p > 9 THEN JsonFail
  ELSE JsonOk([n |-> IndexOf(SubSeq(t, p, e - 1))], e)

\* After "{" and white space.
JsonObject(t, q) ==
  IF q <= Len(t) /\ t[q] = "}" THEN JsonOk([obj |-> <<>>], q + 1) ELSE JsonMembers(t, q, <<>>)

\* After "[" and white space.
JsonArray(t, q) ==
  IF q <= Len(t) /\ t[q] = "]" THEN JsonOk([arr |-> <<>>], q + 1) ELSE JsonElements(t, q, <<>>)

JsonValueAt(t, p) ==
  IF p > Len(t) THEN JsonFail
  ELSE IF t[p] = "{" THEN JsonObject(t, SkipWs(t, p + 1))
  ELSE IF t[p] = "[" THEN JsonArray(t, SkipWs(t, p + 1))
  ELSE IF t[p] = "\"" THEN JsonString(t, p, StringEnd(t, p + 1))
  ELSE IF IsDigit(t[p]) THEN JsonNumber(t, p, NumberEnd(t, p))
  ELSE IF IsLiteral(t, p, <<"t", "r", "u", "e">>) THEN JsonOk([b |-> TRUE], p + 4)
  ELSE IF IsLiteral(t, p, <<"f", "a", "l", "s", "e">>) THEN JsonOk([b |-> FALSE], p + 5)
  ELSE IF IsLiteral(t, p, <<"n", "u", "l", "l">>) THEN JsonOk([nul |-> TRUE], p + 4)
  ELSE JsonFail

\* A value, after white space.
JsonValue(t, p) == JsonValueAt(t, SkipWs(t, p))

\* After a member: "}" ends the object, "," brings the next member.
JsonMemberNext(t, acc, q) ==
  IF q > Len(t) THEN JsonFail
  ELSE IF t[q] = "}" THEN JsonOk([obj |-> acc], q + 1)
  ELSE IF t[q] = "," THEN JsonMembers(t, SkipWs(t, q + 1), acc)
  ELSE JsonFail

JsonMemberValue(t, acc, key, v) ==
  IF ~v.ok THEN JsonFail ELSE JsonMemberNext(t, ObjSet(acc, key, v.val), SkipWs(t, v.pos))

JsonMemberColon(t, acc, key, c) ==
  IF c > Len(t) \/ t[c] # ":" THEN JsonFail ELSE JsonMemberValue(t, acc, key, JsonValue(t, c + 1))

JsonMemberKey(t, p, acc, e) ==
  IF e = 0 THEN JsonFail ELSE JsonMemberColon(t, acc, SubSeq(t, p + 1, e - 1), SkipWs(t, e + 1))

\* "key" : value { , "key" : value } "}" with p at the first key.
JsonMembers(t, p, acc) ==
  IF p > Len(t) \/ t[p] # "\"" THEN JsonFail ELSE JsonMemberKey(t, p, acc, StringEnd(t, p + 1))

JsonElementNext(t, acc, q) ==
  IF q > Len(t) THEN JsonFail
  ELSE IF t[q] = "]" THEN JsonOk([arr |-> acc], q + 1)
  ELSE IF t[q] = "," THEN JsonElements(t, q + 1, acc)
  ELSE JsonFail

JsonElementValue(t, acc, v) ==
  IF ~v.ok THEN JsonFail ELSE JsonElementNext(t, Append(acc, v.val), SkipWs(t, v.pos))

\* value { , value } "]" with p at the first value.
JsonElements(t, p, acc) == JsonElementValue(t, acc, JsonValue(t, p))

JsonWhole(t, v) ==
  IF v.ok /\ SkipWs(t, v.pos) > Len(t) THEN [ok |-> TRUE, val |-> v.val]
  ELSE [ok |-> FALSE, msg |-> [text |-> "SyntaxError", arg |-> Undefined]]

\* JSON.parse(text): one value, then nothing but white space.
JSONparse(t) == JsonWhole(t, JsonValue(t, 1))

(***************************************************************************)
(* parseSafetensors (editor.ts 497-551).                                   *)
(***************************************************************************)
MetadataKey == <<"_", "_", "m", "e", "t", "a", "d", "a", "t", "a", "_", "_">>
DtypeKey == <<"d", "t", "y", "p", "e">>
ShapeKey == <<"s", "h", "a", "p", "e">>

TypeError == [ok |-> FALSE, msg |-> [text |-> "TypeError", arg |-> Undefined]]

\* Object.entries(value), which throws on null and undefined.
ObjectEntries(v) ==
  IF "nul" \in DOMAIN v \/ "undef" \in DOMAIN v THEN TypeError
  ELSE IF "obj" \in DOMAIN v THEN [ok |-> TRUE, val |-> v.obj]
  ELSE IF "arr" \in DOMAIN v
    THEN [ok |-> TRUE, val |-> [j \in 1..Len(v.arr) |-> [k |-> DecStr(j - 1), v |-> v.arr[j]]]]
  ELSE IF "s" \in DOMAIN v
    THEN [ok |-> TRUE, val |-> [j \in 1..Len(v.s) |-> [k |-> DecStr(j - 1), v |-> Str(<<v.s[j]>>)]]]
  ELSE [ok |-> TRUE, val |-> <<>>]

\* value.name for the names dtype and shape, undefined where the value has no
\* such property (the caller has excluded null and undefined).
Prop(v, name) == IF "obj" \in DOMAIN v THEN ObjGet(v.obj, name) ELSE Undefined

\* a * b on numbers: exact while the result stays below 2^31, an unnamed large
\* number beyond, NaN when an operand is no number.
Mul(a, b) ==
  IF "n" \in DOMAIN a /\ "n" \in DOMAIN b /\ a.n >= 0 /\ b.n >= 0
  THEN (IF a.n = 0 \/ b.n <= 2147483647 \div a.n THEN [n |-> a.n * b.n] ELSE [large |-> TRUE])
  ELSE IF "large" \in DOMAIN a /\ "n" \in DOMAIN b /\ b.n > 0 THEN a
  ELSE IF "n" \in DOMAIN a /\ "large" \in DOMAIN b /\ a.n > 0 THEN b
  ELSE IF "large" \in DOMAIN a /\ "large" \in DOMAIN b THEN a
  ELSE [nan |-> TRUE]

\* a + b on numbers, as Mul.
Add(a, b) ==
  IF "n" \in DOMAIN a /\ "n" \in DOMAIN b /\ a.n >= 0 /\ b.n >= 0
  THEN (IF b.n <= 2147483647 - a.n THEN [n |-> a.n + b.n] ELSE [large |-> TRUE])
  ELSE IF "nan" \in DOMAIN a \/ "nan" \in DOMAIN b THEN [nan |-> TRUE]
  ELSE IF {"n", "large"} \cap DOMAIN a # {} /\ {"n", "large"} \cap DOMAIN b # {} THEN [large |-> TRUE]
  ELSE [nan |-> TRUE]

\* A reduce that adds the dimensions up.
RECURSIVE ShapeSum(_, _, _)
ShapeSum(shape, k, acc) ==
  IF k > Len(shape) THEN acc ELSE ShapeSum(shape, k + 1, Add(acc, shape[k]))

\* shape.reduce((a, b) => a * b, 1)
RECURSIVE ShapeProduct(_, _, _)
ShapeProduct(shape, k, acc) ==
  IF k > Len(shape) THEN acc ELSE ShapeProduct(shape, k + 1, Mul(acc, shape[k]))

\* The loop of lines 521-536 from entry k on; st holds tensors, metadata and
\* totalParams.
RECURSIVE WalkHeader(_, _, _)
WalkHeader(entries, k, st) ==
  IF k > Len(entries) THEN [ok |-> TRUE, val |-> st]
  ELSE LET key == entries[k].k
           value == entries[k].v
       IN  IF key = MetadataKey THEN WalkHeader(entries, k + 1, [st EXCEPT !.metadata = value])
           ELSE IF "nul" \in DOMAIN value THEN TypeError
           ELSE LET shape == Prop(value, ShapeKey)
                IN  IF ~IsArray(shape) THEN TypeError
                    ELSE WalkHeader(entries, k + 1,
                           [st EXCEPT
                              !.tensors = Append(@, [name |-> key, dtype |-> Prop(value, DtypeKey),
                                                     shape |-> shape]),
                              !.totalParams = Add(@, ShapeProduct(shape.arr, 1, [n |-> 1]))])

Thrown(msg, issued) == [ok |-> FALSE, msg |-> msg, reads |-> issued]

\* fs.readSync(fd, sizeBuffer, 0, 8, 0)
SizeRead == [pos |-> 0, len |-> [n |-> 8]]

\* A header read that asks for one byte more than the header holds.
HeaderReadOver(headerSize) == [pos |-> 8, len |-> [n |-> headerSize.n + 1]]

\* fs.readSync(fd, headerBuffer, 0, headerSize, 8)
HeaderRead(headerSize) == [pos |-> 8, len |-> headerSize]

\* Lines 538-547.
safetensorsResult(path, data, headerSize, w) ==
  IF ~w.ok THEN Thrown(w.msg, <<SizeRead, HeaderRead(headerSize)>>)
  ELSE [ok |-> TRUE, reads |-> <<SizeRead, HeaderRead(headerSize)>>,
        val |-> [format |-> "safetensors",
                 path |-> path,
                 size |-> Len(data),
                 headerSize |-> headerSize,
                 metadata |-> w.val.metadata,
                 tensors |-> w.val.tensors,
                 tensorCount |-> Len(w.val.tensors),
                 parameters |-> w.val.totalParams]]

\* Lines 517-536.
safetensorsEntries(path, data, headerSize, entries) ==
  IF ~entries.ok THEN Thrown(entries.msg, <<SizeRead, HeaderRead(headerSize)>>)
  ELSE safetensorsResult(path, data, headerSize,
         WalkHeader(entries.val, 1,
                    [tensors |-> <<>>, metadata |-> Undefined, totalParams |-> [n |-> 0]]))

safetensorsHeader(path, data, headerSize, header) ==
  IF ~header.ok THEN Thrown(header.msg, <<SizeRead, HeaderRead(headerSize)>>)
  ELSE safetensorsEntries(path, data, headerSize, ObjectEntries(header.val))

\* The bytes of the header buffer that are kept: all headerSize of them, but of
\* the zeros that follow the end of the file only the first ones, one NUL making
\* JSON.parse fail at the same place as many.
HeaderKept(data, headerSize) == IF headerSize > Len(data) THEN Len(data) + 1 ELSE headerSize

\* A parser that allocates and reads the header before it checks the limit.
safetensorsReadFirst(path, data, headerSize) ==
  IF GreaterThan(headerSize, MaxHeaderSize)
  THEN Thrown([text |-> "Header size too large", arg |-> headerSize],
              <<SizeRead, HeaderRead(headerSize)>>)
  ELSE safetensorsHeader(path, data, headerSize,
         JSONparse(Utf8Decode(readBytes(data, 8, HeaderKept(data, headerSize.n)))))

\* Lines 507-514: the limit, the header read, JSON.parse.
safetensorsSized(path, data, headerSize) ==
  IF GreaterThan(headerSize, MaxHeaderSize)
  THEN Thrown([text |-> "Header size too large", arg |-> headerSize], <<SizeRead>>)
  ELSE safetensorsHeader(path, data, headerSize,
         JSONparse(Utf8Decode(readBytes(data, 8, HeaderKept(data, headerSize.n)))))

\* The try block of parseSafetensors on a file of these bytes: [ok, val, reads]
\* with the metadata record, or [ok |-> FALSE, msg, reads] when it throws; reads
\* lists the positioned reads it issued.
parseSafetensors(path, data) == safetensorsSized(path, data, UnsignedOf(readBytes(data, 0, 8)))

(***************************************************************************)
(* parseGGUF (editor.ts 624-705): the derived fields.                      *)
(***************************************************************************)
quantPatterns ==
  << <<"q", "2", "_", "k">>,
     <<"q", "3", "_", "k">>,
     <<"q", "4", "_", "k">>,
     <<"q", "4", "_", "0">>,
     <<"q", "4", "_", "1">>,
     <<"q", "5", "_", "k">>,
     <<"q", "5", "_", "0">>,
     <<"q", "5", "_", "1">>,
     <<"q", "6", "_", "k">>,
     <<"q", "8", "_", "0">>,
     <<"q", "8", "_", "1">>,
     <<"f", "1", "6">>,
     <<"f", "3", "2">>,
     <<"b", "f", "1", "6">>,
     <<"i", "q", "2">>,
     <<"i", "q", "3">>,
     <<"i", "q", "4">> >>

\* The loop of lines 672-677 from pattern k on: the first pattern the name
\* includes, upper-cased, or undefined.
RECURSIVE QuantLoop(_, _)
QuantLoop(filename, k) ==
  IF k > Len(quantPatterns) THEN Undefined
  ELSE IF includes(filename, quantPatterns[k]) THEN Str(toUpperCase(quantPatterns[k]))
  ELSE QuantLoop(filename, k + 1)

\* A detection that searches the whole path, directories included.
detectQuantizationInPath(filePath) == QuantLoop(toLowerCase(filePath), 1)

\* Lines 668-677: the quantization guessed from the file's path.
detectQuantization(filePath) == QuantLoop(toLowerCase(basename(filePath)), 1)

\* metadata[`${architecture}.suffix`] || metadata['llama.suffix']
ArchField(metadata, architecture, suffix) ==
  Or(ObjGet(metadata, ToStr(architecture) \o suffix),
     ObjGet(metadata, <<"l", "l", "a", "m", "a">> \o suffix))

ArchitectureKey == <<"g", "e", "n", "e", "r", "a", "l", ".", "a", "r", "c", "h", "i", "t", "e", "c", "t", "u", "r", "e">>
ContextSuffix == <<".", "c", "o", "n", "t", "e", "x", "t", "_", "l", "e", "n", "g", "t", "h">>
EmbeddingSuffix == <<".", "e", "m", "b", "e", "d", "d", "i", "n", "g", "_", "l", "e", "n", "g", "t", "h">>
BlockSuffix == <<".", "b", "l", "o", "c", "k", "_", "c", "o", "u", "n", "t">>

\* Lines 660-701: the GGUFMetadata built from the header fields and the
\* metadata decoded so far.
ggufDetails(path, size, rd) ==
  LET architecture == ObjGet(rd.metadata, ArchitectureKey)
      contextLength == ArchField(rd.metadata, architecture, ContextSuffix)
      embeddingLength == ArchField(rd.metadata, architecture, EmbeddingSuffix)
      blockCount == ArchField(rd.metadata, architecture, BlockSuffix)
      parameters == IF Truthy(embeddingLength) /\ Truthy(blockCount)
                    THEN Mul(Mul(Mul(embeddingLength, embeddingLength), blockCount), [n |-> 4])
                    ELSE Undefined
  IN  [format |-> "gguf",
       path |-> path,
       size |-> size,
       version |-> rd.version,
       tensorCount |-> rd.tensorCount,
       metadataKVCount |-> rd.metadataKVCount,
       architecture |-> architecture,
       quantization |-> detectQuantization(path),
       contextLength |-> contextLength,
       embeddingLength |-> embeddingLength,
       parameters |-> parameters,
       metadata |-> rd.metadata]

\* A loop bound without the cap.
maxKVUncapped(count) == IF IsSmall(count) THEN count.n ELSE MaxKV + 1

\* Math.min(metadataKVCount, 500)
maxKVOf(count) == IF IsSmall(count) /\ count.n < MaxKV THEN count.n ELSE MaxKV

GGUFMagic == <<"G", "G", "U", "F">>

\* Lines 630-643: the magic, the version and the two counts; [ok, val] with the
\* reader's locals, or the format error thrown.
ggufHeader(data) ==
  LET magic == AsciiDecode(readBytes(data, 0, 4))
      version == readUint32(data, 4)
      tensorCount == readUint64(data, version.off)
      metadataKVCount == readUint64(data, tensorCount.off)
  IN  IF magic # GGUFMagic
      THEN [ok |-> FALSE, msg |-> [text |-> "Invalid GGUF magic", arg |-> Str(magic)]]
      ELSE IF LessThan(version.val, 2) \/ GreaterThan(version.val, 3)
      THEN [ok |-> FALSE, msg |-> [text |-> "Unsupported GGUF version", arg |-> version.val]]
      ELSE [ok |-> TRUE,
            val |-> [offset |-> metadataKVCount.off, i |-> 0,
                     version |-> version.val,
                     tensorCount |-> tensorCount.val,
                     metadataKVCount |-> metadataKVCount.val,
                     maxKV |-> maxKVOf(metadataKVCount.val),
                     metadata |-> <<>>]]

(***************************************************************************)
(* Input files.  A file is [path, exists, data, src]: src records what the *)
(* bytes were written from, so that a property can compare what the reader *)
(* decodes with what the writer encoded.                                   *)
(***************************************************************************)
MaxPairs == 2
MaxTensors == 2
MaxArrayCount == 3

U32(k) == <<k % 256, (k \div 256) % 256, (k \div 65536) % 256, (k \div 16777216) % 256>>
U64(k) == U32(k) \o <<0, 0, 0, 0>>
EncStr(str) == U64(Len(str)) \o Bytes(str)

\* 2^53 + 1 as a uint64, and the double it narrows to.
Big53p1 == <<1, 0, 0, 0, 0, 0, 32, 0>>
Pow53 == [big |-> <<0, 0, 0, 0, 0, 0, 32>>, neg |-> FALSE]
AllOnes64 == <<255, 255, 255, 255, 255, 255, 255, 255>>

\* A key/value pair as written: its bytes, and the key and value a reader must
\* decode from them (bad: the bytes make the decoder throw).
Pair(key, tag, enc, val) ==
  [enc |-> EncStr(key) \o U32(tag) \o enc, key |-> key, val |-> val, bad |-> FALSE]

BadPair(enc) == [enc |-> enc, key |-> <<>>, val |-> Undefined, bad |-> TRUE]

GoodKinds ==
  { Pair(<<"a">>, 4, U32(7), [n |-> 7]),
    Pair(<<"b">>, 8, EncStr(<<"h", "i">>), Str(<<"h", "i">>)),
    Pair(<<"a">>, 7, <<1>>, [b |-> TRUE]),
    Pair(<<"c">>, 9, U32(0) \o U64(2) \o <<1, 2>>, [arr |-> <<[n |-> 1], [n |-> 2]>>]),
    Pair(<<"d">>, 9, U32(0) \o U64(MaxArrayLen + 1), [ph |-> [n |-> MaxArrayLen + 1]]),
    Pair(<<"e">>, 10, Big53p1, Pow53),
    Pair(<<"f">>, 1, <<255>>, [n |-> 0 - 1]) }

BadKinds ==
  { BadPair(U64(MaxStringLen + 1)),
    BadPair(EncStr(<<"x">>) \o U32(13)),
    BadPair(EncStr(<<"y">>) \o U32(8) \o AllOnes64),
    BadPair(EncStr(<<"z">>) \o U32(9) \o U32(13) \o U64(1)) }

PairKinds == GoodKinds \cup BadKinds

PairLists == UNION {[1..k -> PairKinds] : k \in 0..MaxPairs}

\* The bytes of pairs lo..hi, one after the other.
RECURSIVE EncRange(_, _, _)
EncRange(pairs, lo, hi) ==
  IF lo > hi THEN <<>>
  ELSE IF lo = hi THEN pairs[lo].enc
  ELSE LET mid == (lo + hi) \div 2
       IN  EncRange(pairs, lo, mid) \o EncRange(pairs, mid + 1, hi)

EncPairs(pairs) == EncRange(pairs, 1, Len(pairs))

GGUFBytes == Bytes(GGUFMagic)

\* A .gguf file: magic, version, counts (each as bytes) and the pairs, cut to
\* its first `cut` bytes.  tc and kv are the counts the header encodes.
GgufFile(path, magic, version, tcBytes, tc, kvBytes, kv, pairs, cut, kind) ==
  LET full == magic \o version \o tcBytes \o kvBytes \o EncPairs(pairs)
  IN  [path |-> path, exists |-> TRUE,
       data |-> IF cut < 0 THEN full ELSE SubSeq(full, 1, cut),
       src |-> [kind |-> kind, magic |-> magic, version |-> version,
                tensorCount |-> tc, kvCount |-> kv, pairs |-> pairs,
                whole |-> cut < 0]]

\* No cut: the whole file.
Whole == 0 - 1

PlainGguf == <<"m", ".", "g", "g", "u", "f">>

\* Well-formed files holding every list of up to MaxPairs pairs.
ListFiles ==
  { GgufFile(PlainGguf, GGUFBytes, U32(3), U64(1), [n |-> 1],
             U64(Len(ps)), [n |-> Len(ps)], ps, Whole, "list") : ps \in PairLists }

OnePair == <<Pair(<<"a">>, 4, U32(7), [n |-> 7])>>

Magics == { GGUFBytes, Bytes(<<"g", "g", "u", "f">>), Bytes(<<"G", "G", "M", "L">>),
            <<199, 71, 85, 70>>, <<0, 0, 0, 0>> }

Versions == { U32(0), U32(1), U32(2), U32(3), U32(4), <<3, 1, 0, 0>>, <<2, 0, 0, 128>> }

\* Every magic with every version, and a tensor count that is small or large.
HeaderFiles ==
  { GgufFile(PlainGguf, m, v, t[1], t[2], U64(1), [n |-> 1], OnePair, Whole, "header") :
      m \in Magics, v \in Versions,
      t \in { <<U64(5), [n |-> 5]>>, <<Big53p1, [big |-> Strip(Big53p1), neg |-> FALSE]>> } }

ThreePairs ==
  << Pair(<<"a">>, 4, U32(7), [n |-> 7]),
     Pair(<<"b">>, 8, EncStr(<<"h", "i">>), Str(<<"h", "i">>)),
     Pair(<<"c">>, 9, U32(0) \o U64(2) \o <<1, 2>>, [arr |-> <<[n |-> 1], [n |-> 2]>>]) >>

ThreePairsLen == 24 + Len(EncPairs(ThreePairs))

\* One well-formed file cut after each of its bytes.
TruncatedFiles ==
  { GgufFile(PlainGguf, GGUFBytes, U32(2), U64(2), [n |-> 2], U64(3), [n |-> 3],
             ThreePairs, cut, "truncated") : cut \in 0..(ThreePairsLen - 1) }

\* Bytes that are no key/value pairs after a valid header.
GarbageFiles ==
  { GgufFile(PlainGguf, GGUFBytes, U32(3), U64(0), [n |-> 0], U64(2), [n |-> 2],
             <<BadPair(g)>>, Whole, "garbage") :
      g \in { AllOnes64 \o AllOnes64, <<1, 0, 0, 0, 0, 0, 0, 0, 65, 255, 255, 255, 255>>,
              <<2, 0, 0, 0, 0, 0, 0, 0, 65, 66, 9, 0, 0, 0, 9, 0, 0, 0, 1, 0, 0, 0, 0, 0, 0, 0,
                13, 0, 0, 0, 1>> } }

\* Declared key/value counts that differ from the pairs the file holds.
CountFiles ==
  { GgufFile(PlainGguf, GGUFBytes, U32(3), U64(0), [n |-> 0], k[1], k[2],
             SubSeq(ThreePairs, 1, 2), Whole, "count") :
      k \in { <<U64(0), [n |-> 0]>>, <<U64(1), [n |-> 1]>>, <<U64(MaxKV), [n |-> MaxKV]>>,
              <<U64(MaxKV + 1), [n |-> MaxKV + 1]>>,
              <<Big53p1, [big |-> Strip(Big53p1), neg |-> FALSE]>>,
              <<AllOnes64, [big |-> AllOnes64, neg |-> FALSE]>> } }

\* MaxKV + 1 pairs with distinct keys.
KeyOf(j) == <<"k">> \o DecStr(j)
ManyPairs == [j \in 1..(MaxKV + 1) |-> Pair(KeyOf(j), 0, <<j % 256>>, [n |-> j % 256])]

\* The bytes of a file declaring and holding MaxKV + 1 pairs.
ManyBytes == GGUFBytes \o U32(3) \o U64(0) \o U64(MaxKV + 1) \o EncPairs(ManyPairs)

\* That file.  Its bytes and pairs are ManyBytes and ManyPairs; the state does
\* not repeat them.
ManyFiles ==
  { [path |-> PlainGguf, exists |-> TRUE,
     src |-> [kind |-> "many", magic |-> GGUFBytes, version |-> U32(3),
              tensorCount |-> [n |-> 0], kvCount |-> [n |-> MaxKV + 1], whole |-> TRUE]] }

ArchPair ==
  Pair(ArchitectureKey, 8, EncStr(<<"l", "l", "a", "m", "a">>), Str(<<"l", "l", "a", "m", "a">>))

QuantValuePair ==
  Pair(<<"g", "e", "n", "e", "r", "a", "l", ".", "q", "u", "a", "n", "t", "i", "z", "a", "t", "i", "o", "n">>, 8, EncStr(quantPatterns[10]), Str(quantPatterns[10]))

PatternPath(k) == <<"x", "-">> \o quantPatterns[k] \o <<".", "g", "g", "u", "f">>

NamePaths ==
  { <<"D", ":", "/", "M", "o", "d", "e", "l", "s", "/", "l", "l", "m", "/", "g", "g", "u", "f", "/", "m", "i", "s", "t", "r", "a", "l", "-", "7", "b", ".", "Q", "4", "_", "K", "_", "M", ".", "g", "g", "u", "f">>, <<"a", "-", "q", "4", "_", "k", "-", "q", "8", "_", "0", ".", "g", "g", "u", "f">>, <<"a", "-", "Q", "8", "_", "0", "-", "Q", "4", "_", "K", ".", "g", "g", "u", "f">>, <<"q", "8", "_", "0", "/", "m", "o", "d", "e", "l", ".", "g", "g", "u", "f">>, <<"M", "O", "D", "E", "L", "-", "F", "3", "2", ".", "G", "G", "U", "F">>, <<"m", "-", "i", "q", "4", "_", "x", "s", ".", "g", "g", "u", "f">>, <<"v", "1", ".", "g", "g", "u", "f", "/", "q", "6", "_", "k">>, <<".", "g", "g", "u", "f">>, PlainGguf }
  \cup { PatternPath(k) : k \in 1..Len(quantPatterns) }

\* Paths that do or do not name a quantization, each with metadata that does
\* or does not.
NameFiles ==
  { GgufFile(path, GGUFBytes, U32(3), U64(0), [n |-> 0], U64(Len(ps)), [n |-> Len(ps)],
             ps, Whole, "name") :
      path \in NamePaths, ps \in { <<>>, <<ArchPair, QuantValuePair>> } }

\* A metadata number that is left out of the file.
Absent == 0 - 1

\* The pairs for one derived field: the architecture's key with value s[1],
\* then the llama key with value s[2]; Absent leaves the key out.
FieldPairs(arch, suffix, s) ==
  (IF s[1] # Absent THEN <<Pair(arch \o suffix, 4, U32(s[1]), [n |-> s[1]])>> ELSE <<>>)
  \o (IF s[2] # Absent
      THEN <<Pair(<<"l", "l", "a", "m", "a">> \o suffix, 4, U32(s[2]), [n |-> s[2]])>>
      ELSE <<>>)

\* A file of architecture arch (none when empty) with these settings of the
\* context length, the embedding length and the block count.
ArchFile(arch, c, e, b) ==
  LET ps == (IF arch # <<>> THEN <<Pair(ArchitectureKey, 8, EncStr(arch), Str(arch))>> ELSE <<>>)
            \o FieldPairs(arch, ContextSuffix, c)
            \o FieldPairs(arch, EmbeddingSuffix, e)
            \o FieldPairs(arch, BlockSuffix, b)
      g == GgufFile(PlainGguf, GGUFBytes, U32(3), U64(0), [n |-> 0],
                    U64(Len(ps)), [n |-> Len(ps)], ps, Whole, "arch")
  IN  [g EXCEPT !.src = @ @@ [fields |-> [arch |-> arch, ctx |-> c, emb |-> e, blk |-> b]]]

Settings(x, y) == { <<a, l>> : a \in {Absent, 0, x}, l \in {Absent, 0, y} }

Qwen == <<"q", "w", "e", "n">>

\* Every setting of the context length alone, every setting of the embedding
\* length with every setting of the block count, and files that name no
\* architecture.
ArchFiles ==
  { ArchFile(Qwen, c, <<Absent, Absent>>, <<Absent, Absent>>) : c \in Settings(4096, 2048) }
  \cup { ArchFile(Qwen, <<Absent, Absent>>, e, b) : e \in Settings(8, 16), b \in Settings(2, 3) }
  \cup { ArchFile(<<>>, <<Absent, l[1]>>, <<Absent, l[2]>>, <<Absent, l[3]>>) :
           l \in {Absent, 0, 5} \X {Absent, 16} \X {Absent, 3} }

\* An array of MaxArrayLen + 1 bytes, each of them e, that the file holds in
\* full, followed by one more pair.
HeldArray(e) ==
  EncStr(<<"t">>) \o U32(9) \o U32(0) \o U64(MaxArrayLen + 1)
    \o [j \in 1..(MaxArrayLen + 1) |-> e]

HeldBytes(e) ==
  GGUFBytes \o U32(3) \o U64(0) \o U64(2) \o HeldArray(e)
    \o Pair(<<"a">>, 4, U32(7), [n |-> 7]).enc

HeldFiles ==
  { [path |-> PlainGguf, exists |-> TRUE,
     src |-> [kind |-> "held", magic |-> GGUFBytes, version |-> U32(3),
              tensorCount |-> [n |-> 0], kvCount |-> [n |-> 2], whole |-> TRUE,
              elem |-> e]] : e \in {0, 1} }

\* Arrays whose elements are arrays: of bytes and of strings, and of a
\* placeholder followed by an empty array.
NestedKinds ==
  { Pair(<<"g">>, 9,
         U32(9) \o U64(2) \o (U32(0) \o U64(2) \o <<1, 2>>)
                          \o (U32(8) \o U64(1) \o EncStr(<<"h", "i">>)),
         [arr |-> << [arr |-> <<[n |-> 1], [n |-> 2]>>],
                     [arr |-> <<Str(<<"h", "i">>)>>] >>]),
    Pair(<<"h">>, 9,
         U32(9) \o U64(2) \o (U32(0) \o U64(MaxArrayLen + 1)) \o (U32(0) \o U64(0)),
         [arr |-> << [ph |-> [n |-> MaxArrayLen + 1]], [arr |-> <<>>] >>]) }

\* A file of one such pair, whole or ending inside the nested array.
NestedFiles ==
  { GgufFile(PlainGguf, GGUFBytes, U32(3), U64(0), [n |-> 0], U64(1), [n |-> 1],
             <<k>>, c, IF c < 0 THEN "list" ELSE "nested") :
      k \in NestedKinds, c \in {Whole, 24 + 13 + 12, 24 + 13 + 12 + 12 + 1} }

GgufFiles ==
  ListFiles \cup HeaderFiles \cup TruncatedFiles \cup GarbageFiles \cup CountFiles
  \cup ManyFiles \cup NameFiles \cup ArchFiles \cup NestedFiles \cup HeldFiles

(***************************************************************************)
(* Safetensors input files: an 8-byte header size, the header JSON, then   *)
(* tensor data.                                                            *)
(***************************************************************************)
Quoted(str) == <<"\"">> \o str \o <<"\"">>

RECURSIVE JsonList(_, _)
JsonList(items, k) ==
  IF k > Len(items) THEN <<>>
  ELSE (IF k > 1 THEN <<",">> ELSE <<>>) \o items[k] \o JsonList(items, k + 1)

ShapeJson(shape) == <<"[">> \o JsonList([k \in 1..Len(shape) |-> DecStr(shape[k])], 1) \o <<"]">>

TensorJson(name, shape) ==
  Quoted(name) \o <<":", "{">> \o Quoted(DtypeKey) \o <<":">> \o Quoted(<<"F", "3", "2">>)
  \o <<",">> \o Quoted(ShapeKey) \o <<":">> \o ShapeJson(shape)
  \o <<",">> \o Quoted(<<"d", "a", "t", "a", "_", "o", "f", "f", "s", "e", "t", "s">>)
  \o <<":", "[", "0", ",", "4", "]", "}">>

MetaJson ==
  Quoted(MetadataKey) \o <<":", "{">> \o Quoted(<<"f", "o", "r", "m", "a", "t">>)
  \o <<":">> \o Quoted(<<"p", "t">>) \o <<"}">>

TensorName(k) == <<"t">> \o DecStr(k)

\* The header JSON of these tensor shapes, __metadata__ absent, first or last.
HeaderJson(shapes, meta) ==
  LET tensors == [k \in 1..Len(shapes) |-> TensorJson(TensorName(k), shapes[k])]
      members == IF meta = "first" THEN <<MetaJson>> \o tensors
                 ELSE IF meta = "last" THEN tensors \o <<MetaJson>>
                 ELSE tensors
  IN  <<"{">> \o JsonList(members, 1) \o <<"}">>

Payload == <<1, 2, 3, 4>>

SafetensorsPath == <<"m", "o", "d", "e", "l", ".", "s", "a", "f", "e", "t", "e", "n", "s", "o", "r", "s">>

SafetensorsFile(path, sizeBytes, size, text, shapes, meta, kind) ==
  [path |-> path, exists |-> TRUE,
   data |-> sizeBytes \o Bytes(text) \o Payload,
   src |-> [kind |-> kind, headerSize |-> size, shapes |-> shapes, meta |-> meta,
            textLen |-> Len(text)]]

Shapes == { <<>>, <<4>>, <<2, 3>>, <<0, 5>> }

ShapeLists == UNION {[1..k -> Shapes] : k \in 0..MaxTensors} \cup { << <<2, 3>>, <<>>, <<4>> >> }

\* Well-formed headers with the right header size.
WellFormedFiles ==
  { SafetensorsFile(SafetensorsPath, U64(Len(HeaderJson(sh, meta))),
                    [n |-> Len(HeaderJson(sh, meta))], HeaderJson(sh, meta), sh, meta, "wellformed") :
      sh \in ShapeLists, meta \in {"none", "first", "last"} }

OddTexts ==
  { <<"{", "\"", "a", "\"", ":">>,
    <<"n", "u", "l", "l">>,
    <<"[", "]">>,
    <<"{", "\"", "a", "\"", ":", "5", "}">>,
    <<"{", "\"", "a", "\"", ":", "{", "\"", "d", "t", "y", "p", "e", "\"", ":", "\"", "F", "3", "2", "\"", "}", "}">>,
    <<"{", "\"", "a", "\"", ":", "n", "u", "l", "l", "}">>,
    <<"7">>,
    <<>>,
    <<"{", "\"", "t", "\"", ":", "{", "\"", "s", "h", "a", "p", "e", "\"", ":", "[", "2", "]", "}", ",", "\"", "t", "\"", ":", "{", "\"", "s", "h", "a", "p", "e", "\"", ":", "[", "3", "]", "}", "}">>,
    <<"{", "\"", "w", "\"", ":", "{", "\"", "d", "t", "y", "p", "e", "\"", ":", "\"", "I", "8", "\"", ",", "\"", "s", "h", "a", "p", "e", "\"", ":", "\"", "a", "b", "\"", "}", "}">>,
    <<" ", "{", " ", "}", " ">>,
    <<"\"", "a", "b", "\"">> }

\* Headers that are no JSON, or JSON that is no tensor table.
OddFiles ==
  { SafetensorsFile(SafetensorsPath, U64(Len(t)), [n |-> Len(t)], t, <<>>, "none", "odd") :
      t \in OddTexts }

OneTensor == HeaderJson(<< <<2, 3>> >>, "none")

\* A well-formed header behind a header size that is too small, too large, at
\* the limit or beyond it.
SizedFiles ==
  { SafetensorsFile(SafetensorsPath, z[1], z[2], OneTensor, << <<2, 3>> >>, "none", "sized") :
      z \in { <<U64(Len(OneTensor) - 1), [n |-> Len(OneTensor) - 1]>>,
              <<U64(Len(OneTensor) + 1), [n |-> Len(OneTensor) + 1]>>,
              <<U64(Len(OneTensor) + 9), [n |-> Len(OneTensor) + 9]>>,
              <<U64(0), [n |-> 0]>>,
              <<U64(MaxHeaderSize), [n |-> MaxHeaderSize]>>,
              <<U64(MaxHeaderSize + 1), [n |-> MaxHeaderSize + 1]>>,
              <<<<0, 0, 0, 0, 1, 0, 0, 0>>, [big |-> <<0, 0, 0, 0, 1>>, neg |-> FALSE]>>,
              <<Big53p1, [big |-> Strip(Big53p1), neg |-> FALSE]>>,
              <<AllOnes64, [big |-> AllOnes64, neg |-> FALSE]>> } }

\* Files shorter than the size field.
ShortFiles ==
  { [path |-> SafetensorsPath, exists |-> TRUE, data |-> d,
     src |-> [kind |-> "short", headerSize |-> UnsignedOf(readBytes(d, 0, 8)),
              shapes |-> <<>>, meta |-> "none", textLen |-> 0]] :
      d \in { <<>>, <<2, 0, 0>>, <<255>> } }

SafetensorsFiles == WellFormedFiles \cup OddFiles \cup SizedFiles \cup ShortFiles

\* Files whose extension names another format, or none, and a missing file.
OtherFiles ==
  { [path |-> q, exists |-> TRUE, data |-> d, src |-> [kind |-> "other"]] :
      q \in { <<"n", "o", "t", "e", "s", ".", "t", "x", "t">>, <<"g", "g", "u", "f">>, <<"x", ".", "s", "a", "f", "e", "t", "e", "n", "s", "o", "r", "s", "/", "r", "e", "a", "d", "m", "e">>,
              <<"m", ".", "g", "g", "u", "f", ".", "b", "a", "k">>, <<".", "g", "g", "u", "f">> },
      d \in { <<>>, GGUFBytes \o U32(3) \o U64(0) \o U64(0) } }
  \cup
  { [path |-> q, exists |-> FALSE, data |-> <<>>, src |-> [kind |-> "missing"]] :
      q \in { PlainGguf, SafetensorsPath, <<"n", "o", "t", "e", "s", ".", "t", "x", "t">> } }
  \cup
  { SafetensorsFile(<<"/", "m", "o", "d", "e", "l", "s", "/", "M", "o", "d", "e", "l", ".", "S", "a", "f", "e", "T", "e", "n", "s", "o", "r", "s">>, U64(Len(OneTensor)), [n |-> Len(OneTensor)], OneTensor,
                    << <<2, 3>> >>, "none", "wellformed") }

Files == GgufFiles \cup SafetensorsFiles \cup OtherFiles

\* The bytes of a file.
Data(f) ==
  IF f.src.kind = "many" THEN ManyBytes
  ELSE IF f.src.kind = "held" THEN HeldBytes(f.src.elem)
  ELSE f.data

(***************************************************************************)
(* getModelInfo (editor.ts 730-756) and the info operation (797-879).      *)
(***************************************************************************)
NoException == [st |-> "none", msg |-> Undefined]

NoInfo == [path |-> <<>>, name |-> <<>>, format |-> "none", size |-> 0,
           sizeFormatted |-> Undefined, details |-> Undefined, error |-> Undefined]

NoReader == [offset |-> 0, i |-> 0, version |-> Undefined, tensorCount |-> Undefined,
             metadataKVCount |-> Undefined, maxKV |-> 0, metadata |-> <<>>]

NoFds == [opened |-> 0, closed |-> 0]

IdleRv == [buf |-> <<>>, off |-> 0, type |-> Undefined, st |-> "idle",
           out |-> Undefined, src |-> [kind |-> "none"]]

IdleLs == [st |-> "idle"]

IdleCmp == [st |-> "idle"]

IdleBt == [st |-> "idle"]
IdleTm == [st |-> "idle"]
IdleTx == [st |-> "idle"]
IdlePy == [st |-> "idle"]
IdleFc == [st |-> "idle"]

SafetensorsExt == <<".", "s", "a", "f", "e", "t", "e", "n", "s", "o", "r", "s">>
GgufExt == <<".", "g", "g", "u", "f">>

\* A dispatch that takes every extension other than .safetensors for GGUF.
formatOfGgufByDefault(ext) == IF ext = SafetensorsExt THEN "safetensors" ELSE "gguf"

\* Lines 744-750: the format chosen from the lower-cased extension.
formatOf(ext) ==
  IF ext = SafetensorsExt THEN "safetensors"
  ELSE IF ext = GgufExt THEN "gguf"
  ELSE "unknown"

\* A catch clause that swallows the exception.
catchErrorSilently(inf, e) == inf

\* A catch clause that files the exception under details.
catchErrorAsDetails(inf, e) == [inf EXCEPT !.details = e]

\* Line 752: the catch clause.
catchError(inf, e) == [inf EXCEPT !.error = e]

\* The display helpers formatSize, formatParameters and toLocaleString are
\* left uninterpreted: the text they produce is no part of the data contract.
formatSize(bytes) == [formatSize |-> bytes]
formatParameters(params) == [formatParameters |-> params]

\* Lines 731-750 up to the call of a parser: stat, the ModelInfo, the dispatch
\* on the extension.  A missing file makes stat throw, outside the try block.
GetModelInfo ==
  /\ pc = "start"
  /\ IF ~file.exists
     THEN /\ exc' = [st |-> "escaped", msg |-> [text |-> "ENOENT", arg |-> Str(file.path)]]
          /\ pc' = "thrown"
          /\ UNCHANGED info
     ELSE LET fmt == formatOf(toLowerCase(extname(file.path)))
          IN  /\ info' = [NoInfo EXCEPT !.path = file.path,
                                        !.name = basename(file.path),
                                        !.format = fmt,
                                        !.size = Len(Data(file)),
                                        !.sizeFormatted = formatSize(Len(Data(file)))]
              /\ pc' = IF fmt = "unknown" THEN "done" ELSE fmt
              /\ UNCHANGED exc
  /\ UNCHANGED <<file, reader, reads, fds, report, rv, ls, cmp, bt, tm, tx, py, fc>>

\* A finally clause that leaves the descriptor open.
closeSkipped(d) == d

\* Lines 549 and 569-571, 703: fs.closeSync in the finally clause of a parser.
closeSync(d) == [d EXCEPT !.closed = @ + 1]

\* Line 746: parseSafetensors runs to its return or to its throw; the finally
\* clause closes the descriptor either way.
ParseSafetensors ==
  /\ pc = "safetensors"
  /\ \E r \in {parseSafetensors(file.path, Data(file))} :
         /\ reads' = r.reads
         /\ fds' = closeSync([fds EXCEPT !.opened = @ + 1])
         /\ IF r.ok
            THEN /\ info' = [info EXCEPT !.details = r.val]
                 /\ pc' = "done"
                 /\ UNCHANGED exc
            ELSE /\ exc' = [st |-> "inflight", msg |-> r.msg]
                 /\ pc' = "catch"
                 /\ UNCHANGED info
  /\ UNCHANGED <<file, reader, report, rv, ls, cmp, bt, tm, tx, py, fc>>

\* Lines 625-643: the reader is opened and the header read; a bad magic or
\* version throws, and the finally clause closes the reader.
ParseGGUFHeader ==
  /\ pc = "gguf"
  /\ \E h \in {ggufHeader(Data(file))} :
         IF h.ok
         THEN /\ reader' = h.val
              /\ fds' = [fds EXCEPT !.opened = @ + 1]
              /\ pc' = "kv"
              /\ UNCHANGED exc
         ELSE /\ exc' = [st |-> "inflight", msg |-> h.msg]
              /\ fds' = closeSync([fds EXCEPT !.opened = @ + 1])
              /\ pc' = "catch"
              /\ UNCHANGED reader
  /\ UNCHANGED <<file, info, reads, report, rv, ls, cmp, bt, tm, tx, py, fc>>

\* Lines 649-658: one pass of the key/value loop; a throw leaves the loop.
ParseGGUFPair ==
  /\ pc = "kv"
  /\ reader.i < reader.maxKV
  /\ \E r \in {readPair(Data(file), reader.offset)} :
         IF r.ok
         THEN reader' = [reader EXCEPT !.offset = r.off, !.i = @ + 1,
                                       !.metadata = ObjSet(@, r.key, r.val)]
              /\ pc' = "kv"
         ELSE reader' = [reader EXCEPT !.offset = r.off]
              /\ pc' = "broke"
  /\ UNCHANGED <<file, info, reads, fds, exc, report, rv, ls, cmp, bt, tm, tx, py, fc>>

\* Lines 660-704: the loop is over; the derived fields, the result, the close.
ParseGGUFFinish ==
  /\ \/ pc = "kv" /\ reader.i >= reader.maxKV
     \/ pc = "broke"
  /\ info' = [info EXCEPT !.details = ggufDetails(file.path, Len(Data(file)), reader)]
  /\ fds' = closeSync(fds)
  /\ pc' = "done"
  /\ UNCHANGED <<file, reader, reads, exc, report, rv, ls, cmp, bt, tm, tx, py, fc>>

\* Lines 751-755: the exception of a parser is caught and becomes the error
\* field; exc keeps the caught exception for the record.
GetModelInfoCatch ==
  /\ pc = "catch"
  /\ info' = catchError(info, exc.msg)
  /\ exc' = [exc EXCEPT !.st = "caught"]
  /\ pc' = "done"
  /\ UNCHANGED <<file, reader, reads, fds, report, rv, ls, cmp, bt, tm, tx, py, fc>>

(***************************************************************************)
(* getModelInfo as a function of a path and the bytes it names: what the   *)
(* steps above compute when nothing else runs.  The callers that inspect   *)
(* several files (listModels, compare) use it for each call.               *)
(***************************************************************************)
\* Lines 649-658: the key/value loop run until the count is reached or a pair
\* throws.
RECURSIVE parseGGUFLoop(_, _)
parseGGUFLoopNext(data, rd, r) ==
  IF r.ok
  THEN parseGGUFLoop(data, [rd EXCEPT !.offset = r.off, !.i = @ + 1,
                                      !.metadata = ObjSet(@, r.key, r.val)])
  ELSE [rd EXCEPT !.offset = r.off]
parseGGUFLoop(data, rd) ==
  IF rd.i >= rd.maxKV THEN rd ELSE parseGGUFLoopNext(data, rd, readPair(data, rd.offset))

\* Lines 624-705: [ok, val] with the GGUFMetadata, or the format error thrown.
parseGGUFOf(path, data, h) ==
  IF h.ok THEN [ok |-> TRUE, val |-> ggufDetails(path, Len(data), parseGGUFLoop(data, h.val))]
  ELSE h
parseGGUF(path, data) == parseGGUFOf(path, data, ggufHeader(data))

\* Lines 743-755: the parser's result stored, or its exception caught.
getModelInfoTry(inf, r) == IF r.ok THEN [inf EXCEPT !.details = r.val] ELSE catchError(inf, r.msg)

\* Lines 730-756, for a file that stat finds.
getModelInfoAs(path, data, fmt) ==
  getModelInfoTry([NoInfo EXCEPT !.path = path, !.name = basename(path), !.format = fmt,
                                 !.size = Len(data), !.sizeFormatted = formatSize(Len(data))],
                  IF fmt = "safetensors" THEN parseSafetensors(path, data)
                  ELSE IF fmt = "gguf" THEN parseGGUF(path, data)
                  ELSE [ok |-> TRUE, val |-> Undefined])
getModelInfo(path, data) == getModelInfoAs(path, data, formatOf(toLowerCase(extname(path))))

(***************************************************************************)
(* executeModelOperation, case 'info' (editor.ts 801-879): the lines of    *)
(* the report, each [label, v].                                            *)
(***************************************************************************)
Line(label, v) == [label |-> label, v |-> v]

\* info.format.toUpperCase()
formatUpper(fmt) ==
  IF fmt = "safetensors" THEN "SAFETENSORS" ELSE IF fmt = "gguf" THEN "GGUF" ELSE "UNKNOWN"

\* A string longer than max cut to max characters and "...".
Shorten(v, max) ==
  IF IsString(v) /\ Len(v.s) > max THEN Str(SubSeq(v.s, 1, max) \o <<".", ".", ".">>) ELSE v

\* args.limit || dflt
LimitOf(args, dflt) == IF args.limit # 0 THEN args.limit ELSE dflt

\* Lines 818-847.
safetensorsLines(st, args) ==
  LET head == << Line("Header Size", formatSize(st.headerSize)),
                 Line("Tensors", [n |-> st.tensorCount]) >>
      params == IF Truthy(st.parameters)
                THEN <<Line("Parameters", formatParameters(st.parameters))>> ELSE <<>>
      entries == IF Truthy(st.metadata) THEN ObjectEntries(st.metadata).val ELSE <<>>
      meta == IF Len(entries) > 0
              THEN <<Line("", Undefined), Line("Metadata:", Undefined)>>
                   \o [k \in 1..Len(entries) |-> Line("entry", [key |-> entries[k].k, value |-> Shorten(entries[k].v, 100)])]
              ELSE <<>>
      showCount == IF Len(st.tensors) < LimitOf(args, 20) THEN Len(st.tensors) ELSE LimitOf(args, 20)
      tensors == IF args.tensors /\ Len(st.tensors) > 0
                 THEN <<Line("", Undefined), Line("Tensors total", [n |-> st.tensorCount])>>
                      \o [k \in 1..showCount |->
                            Line("tensor", [name |-> st.tensors[k].name, dtype |-> st.tensors[k].dtype,
                                                      shape |-> st.tensors[k].shape])]
                      \o (IF Len(st.tensors) > showCount
                          THEN <<Line("more", [n |-> Len(st.tensors) - showCount])>> ELSE <<>>)
                 ELSE <<>>
  IN  head \o params \o meta \o tensors

\* Lines 864-869: a long string or a long array cut for display.
ShortenMeta(v) ==
  IF IsString(v) THEN Shorten(v, 80)
  ELSE IF IsArray(v) /\ Len(v.arr) > 5
  THEN [arr |-> SubSeq(v.arr, 1, 5), items |-> Len(v.arr)]
  ELSE v

\* Lines 849-875.
ggufLines(gguf, args) ==
  LET Opt(label, v, shown) == IF Truthy(v) THEN <<Line(label, shown)>> ELSE <<>>
      head == << Line("Version", gguf.version), Line("Tensors", gguf.tensorCount) >>
              \o Opt("Architecture", gguf.architecture, gguf.architecture)
              \o Opt("Quantization", gguf.quantization, gguf.quantization)
              \o Opt("Context Length", gguf.contextLength, [toLocaleString |-> gguf.contextLength])
              \o Opt("Embedding Dim", gguf.embeddingLength, gguf.embeddingLength)
              \o Opt("Parameters", gguf.parameters, formatParameters(gguf.parameters))
      count == IF Len(gguf.metadata) < LimitOf(args, 30) THEN Len(gguf.metadata)
               ELSE LimitOf(args, 30)
      meta == IF args.metadata
              THEN <<Line("", Undefined), Line("Metadata keys", gguf.metadataKVCount)>>
                   \o [k \in 1..count |-> Line("entry", [key |-> gguf.metadata[k].k, value |-> ShortenMeta(gguf.metadata[k].v)])]
                   \o (IF Len(gguf.metadata) > count
                       THEN <<Line("more", [n |-> Len(gguf.metadata) - count])>> ELSE <<>>)
              ELSE <<>>
  IN  head \o meta

\* Lines 805-878: the report on a ModelInfo.
infoLines(inf, args) ==
  LET head == << Line("Model", Str(inf.name)), Line("Format", formatUpper(inf.format)),
                 Line("Size", inf.sizeFormatted) >>
  IN  IF ~IsUndefined(inf.error) THEN Append(head, Line("Error", inf.error))
      ELSE IF inf.format = "safetensors" /\ ~IsUndefined(inf.details)
      THEN head \o safetensorsLines(inf.details, args)
      ELSE IF inf.format = "gguf" /\ ~IsUndefined(inf.details)
      THEN head \o ggufLines(inf.details, args)
      ELSE head

InfoArgs == [tensors : BOOLEAN, metadata : BOOLEAN, limit : {0, 1}]

\* The info operation returns its report once getModelInfo has returned.
ExecuteInfo ==
  /\ pc = "done"
  /\ \E args \in InfoArgs : report' = infoLines(info, args)
  /\ pc' = "reported"
  /\ UNCHANGED <<file, info, reader, reads, fds, exc, rv, ls, cmp, bt, tm, tx, py, fc>>

Init ==
  /\ file \in Files
  /\ pc = "start"
  /\ info = NoInfo
  /\ reader = NoReader
  /\ reads = <<>>
  /\ fds = NoFds
  /\ exc = NoException
  /\ report = <<>>
  /\ rv = IdleRv
  /\ ls = IdleLs
  /\ cmp = IdleCmp
  /\ bt = IdleBt
  /\ tm = IdleTm
  /\ tx = IdleTx
  /\ py = IdlePy
  /\ fc = IdleFc

Next ==
  \/ GetModelInfo
  \/ ParseSafetensors
  \/ ParseGGUFHeader
  \/ ParseGGUFPair
  \/ ParseGGUFFinish
  \/ GetModelInfoCatch
  \/ ExecuteInfo

Spec == Init /\ [][Next]_vars

(***************************************************************************)
(* GGUFReader.readValue on its own (editor.ts 595-621): a reader at offset *)
(* rv.off of the bytes rv.buf is asked for one value of type rv.type.      *)
(* rv.src records what the bytes were written from.                        *)
(***************************************************************************)
\* Element k of an array of element type t, as written and as decoded.
ElemEnc(t, k) ==
  CASE t = 0 -> <<k>>
    [] t = 4 -> U32(k + 255)
    [] t = 7 -> <<k % 2>>
    [] t = 8 -> EncStr([j \in 1..k |-> "x"])
    [] t = 9 -> U32(0) \o U64(k) \o [j \in 1..k |-> j]
    [] OTHER -> <<k>>

ElemVal(t, k) ==
  CASE t = 0 -> [n |-> k]
    [] t = 4 -> [n |-> k + 255]
    [] t = 7 -> [b |-> k % 2 # 0]
    [] t = 8 -> Str([j \in 1..k |-> "x"])
    [] t = 9 -> [arr |-> [j \in 1..k |-> [n |-> j]]]
    [] OTHER -> Undefined

RECURSIVE ElemBytes(_, _)
ElemBytes(t, count) == IF count = 0 THEN <<>> ELSE ElemBytes(t, count - 1) \o ElemEnc(t, count)

ElemTypes == {0, 4, 7, 8, 9, 13}
Pads == { <<>>, <<170, 187>> }
Trailer == <<9, 9>>

\* An array of `count` elements after the bytes `pad`, whole or cut right
\* after the element type and the count.
RvArray(pad, t, count, whole) ==
  [buf |-> pad \o U32(t) \o U64(count) \o (IF whole THEN ElemBytes(t, count) \o Trailer ELSE <<>>),
   off |-> Len(pad), type |-> [n |-> 9], st |-> "called", out |-> Undefined,
   src |-> [kind |-> "array", elemType |-> t, count |-> count, whole |-> whole,
            elems |-> [k \in 1..count |-> ElemVal(t, k)],
            width |-> Len(ElemBytes(t, count))]]

\* An array header declaring more elements than MaxArrayLen, followed by a
\* few bytes.
RvLarge(pad, t, countBytes, count) ==
  [buf |-> pad \o U32(t) \o countBytes \o <<1, 2, 3>>,
   off |-> Len(pad), type |-> [n |-> 9], st |-> "called", out |-> Undefined,
   src |-> [kind |-> "large", elemType |-> t, count |-> count]]

LargeCounts ==
  { <<U64(MaxArrayLen + 1), [n |-> MaxArrayLen + 1]>>,
    <<<<0, 0, 0, 0, 1, 0, 0, 0>>, [big |-> <<0, 0, 0, 0, 1>>, neg |-> FALSE]>>,
    <<AllOnes64, [big |-> <<0, 0, 0, 0, 0, 0, 0, 0, 1>>, neg |-> FALSE]>> }

ScalarBytes == <<255, 1, 2, 3, 4, 5, 6, 128, 7>>

\* A value of a type that is no array, and tags that name no type.
RvScalar(off, t) ==
  [buf |-> ScalarBytes, off |-> off, type |-> t, st |-> "called", out |-> Undefined,
   src |-> [kind |-> "scalar"]]

ScalarTypes ==
  { [n |-> t] : t \in (0..13) \ {9} } \cup { UnsignedOf(<<9, 0, 0, 128>>) }

\* A string of `len` bytes after the bytes `pad`, followed by the trailer.
RvString(pad, len) ==
  [buf |-> pad \o EncStr([j \in 1..len |-> "s"]) \o Trailer,
   off |-> Len(pad), type |-> [n |-> 8], st |-> "called", out |-> Undefined,
   src |-> [kind |-> "string", len |-> len]]

RvInputs ==
  { RvArray(pad, t, count, whole) :
      pad \in Pads, t \in ElemTypes, count \in 0..MaxArrayCount, whole \in BOOLEAN }
  \cup { RvLarge(pad, t, c[1], c[2]) : pad \in Pads, t \in ElemTypes, c \in LargeCounts }
  \cup { RvScalar(off, t) : off \in {0, 1, 8}, t \in ScalarTypes }
  \cup { RvString(pad, len) : pad \in Pads, len \in 0..MaxArrayCount }

\* One call of readValue: it returns a value and leaves the cursor behind it,
\* or it throws.
ReadValue ==
  /\ pc = "readValue"
  /\ rv.st = "called"
  /\ \E r \in {readValue(rv.buf, rv.off, rv.type)} :
         rv' = [rv EXCEPT !.st = IF r.ok THEN "returned" ELSE "thrown", !.out = r]
  /\ UNCHANGED mvars

InitRV ==
  /\ file = [path |-> <<>>, exists |-> FALSE, data |-> <<>>, src |-> [kind |-> "none"]]
  /\ pc = "readValue"
  /\ info = NoInfo
  /\ reader = NoReader
  /\ reads = <<>>
  /\ fds = NoFds
  /\ exc = NoException
  /\ report = <<>>
  /\ rv \in RvInputs
  /\ ls = IdleLs
  /\ cmp = IdleCmp
  /\ bt = IdleBt
  /\ tm = IdleTm
  /\ tx = IdleTx
  /\ py = IdlePy
  /\ fc = IdleFc

NextRV == ReadValue

SpecRV == InitRV /\ [][NextRV]_vars

(***************************************************************************)
(* listModels (editor.ts 758-791) and the list and search operations       *)
(* (881-921, 989-1019).  The file system is a set of nodes                 *)
(* [path, type, data, err]: type is "file", "dir" or "other" (a symbolic   *)
(* link, a socket: a Dirent that is neither isFile nor isDirectory), err   *)
(* the error that stat (on a file) or readdir (on a directory) raises on   *)
(* the node, "none" when it raises none.                                   *)
(***************************************************************************)
Node(path, type, data, err) == [path |-> path, type |-> type, data |-> data, err |-> err]

\* path.dirname and path.join(dir, name) on paths without a trailing separator.
dirname(p) ==
  IF Positions(p, "/") = {} THEN <<".">> ELSE SubSeq(p, 1, Max(Positions(p, "/")) - 1)
join(dir, name) == dir \o <<"/">> \o name

\* The sequences that list each element of a set once.
Orders(S) ==
  { o \in [1..Cardinality(S) -> S] : \A i, j \in 1..Cardinality(S) : o[i] = o[j] => i = j }

\* readdir(dir, {withFileTypes: true}): the Dirents of the directory's
\* children, in an order the file system chooses.
Dirents(fs, dir) == { [name |-> basename(n.path), type |-> n.type] : n \in {m \in fs : dirname(m.path) = dir} }
readdir(fs, dir) == Orders(Dirents(fs, dir))

\* The node a path names; none when the path names nothing.
NoNode == Node(<<>>, "none", <<>>, "ENOENT")
Lookup(fs, path) == IF \E n \in fs : n.path = path THEN CHOOSE n \in fs : n.path = path ELSE NoNode

\* readdir on something that is not a directory raises ENOTDIR.
readdirError(node) == IF node.type \in {"dir", "none"} THEN node.err ELSE "ENOTDIR"

\* Line 760 and line 771: modelExtensions.includes(ext).
modelExtensions == <<SafetensorsExt, GgufExt>>
\* A filter that lets every extension pass.
anyExtension(ext) == TRUE

isModelExtension(ext) == \E k \in 1..Len(modelExtensions) : modelExtensions[k] = ext

\* Line 768: entry.isDirectory() && recursive.
descends(entry, recursive) == entry.type = "dir" /\ recursive

(***************************************************************************)
(* String.prototype.localeCompare with the default locale: the Unicode     *)
(* collation algorithm on the root collation, as Node's ICU applies it.    *)
(* Strings are first compared by the primary weights of their characters   *)
(* (punctuation before digits before letters, a letter's case ignored);    *)
(* strings equal at that level are compared by case, lower case first.     *)
(* Collation lists the characters the names of the model use in the order  *)
(* of their primary weights.                                               *)
(***************************************************************************)
Collation ==
  << "_", "-", ".", "0", "1", "2", "3", "4", "5", "6", "7", "8", "9",
     "a", "b", "c", "d", "e", "f", "g", "h", "i", "j", "k", "l", "m",
     "n", "o", "p", "q", "r", "s", "t", "u", "v", "w", "x", "y", "z" >>

PrimaryWeights(str) ==
  [k \in 1..Len(str) |-> CHOOSE w \in 1..Len(Collation) : Collation[w] = toLowerCase(str)[k]]
TertiaryWeights(str) == [k \in 1..Len(str) |-> IF IsUpperChar(str[k]) THEN 1 ELSE 0]
CodeUnits(str) == [k \in 1..Len(str) |-> OrdOf[str[k]]]

\* Lexicographic comparison of two sequences of numbers: -1, 0 or 1.
SeqCompareAt(x, y, d) ==
  IF d # {} THEN (IF x[Min(d)] < y[Min(d)] THEN 0 - 1 ELSE 1)
  ELSE IF Len(x) < Len(y) THEN 0 - 1
  ELSE IF Len(x) > Len(y) THEN 1
  ELSE 0
SeqCompare(x, y) ==
  SeqCompareAt(x, y, {k \in 1..Len(x) : k <= Len(y) /\ x[k] # y[k]})

localeCompareAt(a, b, primary) ==
  IF primary # 0 THEN primary ELSE SeqCompare(TertiaryWeights(a), TertiaryWeights(b))
localeCompare(a, b) == localeCompareAt(a, b, SeqCompare(PrimaryWeights(a), PrimaryWeights(b)))

\* Line 786: models.sort((a, b) => a.name.localeCompare(b.name)).  The sort
\* is stable: m goes behind every model that does not compare greater.
InsertByName(sorted, m) ==
  LET k == Cardinality({i \in 1..Len(sorted) : localeCompare(sorted[i].name, m.name) <= 0})
  IN  SubSeq(sorted, 1, k) \o <<m>> \o SubSeq(sorted, k + 1, Len(sorted))

RECURSIVE sortByName(_, _)
sortByName(models, n) ==
  IF n = 0 THEN <<>> ELSE InsertByName(sortByName(models, n - 1), models[n])

\* Line 782: models.reduce((sum, m) => sum + m.size, 0).
RECURSIVE sumSizes(_, _)
sumSizes(models, n) == IF n = 0 THEN 0 ELSE sumSizes(models, n - 1) + models[n].size

\* Lines 784-790.
listResult(directory, models) ==
  [directory |-> directory,
   models |-> sortByName(models, Len(models)),
   totalCount |-> Len(models),
   totalSize |-> sumSizes(models, Len(models)),
   totalSizeFormatted |-> formatSize(sumSizes(models, Len(models)))]

\* details?.field
Optional(details, field) == IF IsUndefined(details) THEN Undefined ELSE details[field]
Shown(v) == IF Truthy(v) THEN v ELSE Undefined

\* Lines 886-919: the report of the list operation.
ggufGroup(gguf) ==
  IF Len(gguf) = 0 THEN <<>>
  ELSE <<Line("GGUF Models", [n |-> Len(gguf)])>>
       \o [k \in 1..Len(gguf) |->
             Line("model", [name |-> gguf[k].name,
                            quant |-> Shown(Optional(gguf[k].details, "quantization")),
                            arch |-> Shown(Optional(gguf[k].details, "architecture")),
                            size |-> gguf[k].sizeFormatted])]
       \o <<Line("", Undefined)>>

safetensorsGroup(st) ==
  IF Len(st) = 0 THEN <<>>
  ELSE <<Line("Safetensors Models", [n |-> Len(st)])>>
       \o [k \in 1..Len(st) |->
             Line("model", [name |-> st[k].name,
                            params |-> Shown(Optional(st[k].details, "parameters")),
                            size |-> st[k].sizeFormatted])]

IsGgufModel(m) == m.format = "gguf"
IsSafetensorsModel(m) == m.format = "safetensors"

listLines(result) ==
  << Line("Directory", Str(result.directory)), Line("Models", [n |-> result.totalCount]),
     Line("Total Size", result.totalSizeFormatted), Line("", Undefined) >>
  \o (IF Len(result.models) = 0 THEN <<Line("No models found.", Undefined)>>
      ELSE ggufGroup(SelectSeq(result.models, IsGgufModel))
           \o safetensorsGroup(SelectSeq(result.models, IsSafetensorsModel)))

\* Lines 997-1003: the filter of the search operation.  A details field that
\* is neither a string nor undefined has no toLowerCase: the filter throws.
fieldMatches(m, field, query) ==
  /\ m.format = "gguf"
  /\ ~IsUndefined(m.details)
  /\ IsString(m.details[field])
  /\ includes(toLowerCase(m.details[field].s), query)

fieldThrows(m, field) ==
  /\ m.format = "gguf"
  /\ ~IsUndefined(m.details)
  /\ ~IsString(m.details[field])
  /\ ~IsUndefined(m.details[field])
  /\ ~("nul" \in DOMAIN m.details[field])

matches(m, query) ==
  \/ includes(toLowerCase(m.name), query)
  \/ fieldMatches(m, "architecture", query)
  \/ fieldMatches(m, "quantization", query)

\* The filter throws on m when the name does not match and a field throws
\* before one matches.
matchThrows(m, query) ==
  /\ ~includes(toLowerCase(m.name), query)
  /\ \/ fieldThrows(m, "architecture")
     \/ ~fieldMatches(m, "architecture", query) /\ fieldThrows(m, "quantization")

\* Lines 1005-1018: the report of the search operation.
searchLines(found, query) ==
  IF Len(found) = 0 THEN <<Line("No models found matching", Str(query))>>
  ELSE <<Line("Found", [n |-> Len(found), query |-> Str(query)]), Line("", Undefined)>>
       \o [k \in 1..Len(found) |->
             Line("model", [name |-> found[k].name,
                            extra |-> IF found[k].format = "gguf"
                                      THEN Shown(Optional(found[k].details, "architecture"))
                                      ELSE Undefined,
                            size |-> found[k].sizeFormatted,
                            path |-> found[k].path])]

(***************************************************************************)
(* The directories listed.                                                 *)
(***************************************************************************)
\* The most entries the listed directory holds.
MaxEntries == 2

Root == <<"/", "m">>

TinyGguf == GGUFBytes \o U32(3) \o U64(0) \o U64(1) \o ArchPair.enc
NotGguf == Bytes(<<"G", "G", "M", "L">>)
TinySafetensors == U64(Len(OneTensor)) \o Bytes(OneTensor) \o Payload
NotJson == U64(1) \o Bytes(<<"<">>)

\* What the listed directory may hold: each entry is a node, a directory
\* with the nodes below it.
Entries ==
  { {Node(<<"/", "m", "/", "a", ".", "g", "g", "u", "f">>, "file", TinyGguf, "none")},
    {Node(<<"/", "m", "/", "B", ".", "g", "g", "u", "f">>, "file", NotGguf, "none")},
    {Node(<<"/", "m", "/", "A", ".", "s", "a", "f", "e", "t", "e", "n", "s", "o", "r", "s">>, "file", TinySafetensors, "none")},
    {Node(<<"/", "m", "/", "n", "o", "t", "e", "s", ".", "t", "x", "t">>, "file", TinyGguf, "none")},
    {Node(<<"/", "m", "/", "s", "u", "b">>, "dir", <<>>, "none"),
     Node(<<"/", "m", "/", "s", "u", "b", "/", "c", ".", "s", "a", "f", "e", "t", "e", "n", "s", "o", "r", "s">>, "file", NotJson, "none"),
     Node(<<"/", "m", "/", "s", "u", "b", "/", "b", ".", "G", "G", "U", "F">>, "file", TinyGguf, "none")},
    {Node(<<"/", "m", "/", "x", ".", "g", "g", "u", "f">>, "dir", <<>>, "none"),
     Node(<<"/", "m", "/", "x", ".", "g", "g", "u", "f", "/", "a", ".", "g", "g", "u", "f">>, "file", GGUFBytes \o U32(2), "none")},
    {Node(<<"/", "m", "/", "l", ".", "g", "g", "u", "f">>, "other", <<>>, "none")},
    {Node(<<"/", "m", "/", "l", "o", "c", "k", "e", "d">>, "dir", <<>>, "EACCES"),
     Node(<<"/", "m", "/", "l", "o", "c", "k", "e", "d", "/", "f", ".", "g", "g", "u", "f">>, "file", TinyGguf, "none")},
    {Node(<<"/", "m", "/", "g", "o", "n", "e", ".", "g", "g", "u", "f">>, "file", TinyGguf, "ENOENT")} }

\* Three Safetensors files of 100, 200 and 300 bytes.
Padded(bytes, size) == bytes \o [k \in 1..(size - Len(bytes)) |-> 0]
SizedTree ==
  { Node(Root, "dir", <<>>, "none"),
    Node(<<"/", "m", "/", "3", ".", "s", "a", "f", "e", "t", "e", "n", "s", "o", "r", "s">>, "file", Padded(TinySafetensors, 300), "none"),
    Node(<<"/", "m", "/", "1", ".", "s", "a", "f", "e", "t", "e", "n", "s", "o", "r", "s">>, "file", Padded(TinySafetensors, 100), "none"),
    Node(<<"/", "m", "/", "2", ".", "s", "a", "f", "e", "t", "e", "n", "s", "o", "r", "s">>, "file", Padded(TinySafetensors, 200), "none") }

\* Names that differ in case only, or in their first letter and its case.
CaseTree ==
  { Node(Root, "dir", <<>>, "none"),
    Node(<<"/", "m", "/", "a", ".", "g", "g", "u", "f">>, "file", TinyGguf, "none"),
    Node(<<"/", "m", "/", "B", ".", "g", "g", "u", "f">>, "file", TinyGguf, "none"),
    Node(<<"/", "m", "/", "A", ".", "g", "g", "u", "f">>, "file", NotGguf, "none") }

Trees ==
  { {Node(Root, "dir", <<>>, "none")} \cup UNION chosen :
      chosen \in {c \in SUBSET Entries : Cardinality(c) <= MaxEntries} }
  \cup {SizedTree, CaseTree, {}, {Node(Root, "file", <<>>, "none")}}

Queries == { <<"g", "g", "u", "f">>, <<"l", "l", "a", "m", "a">>, <<"a", ".">>, <<"z", "z", "z">> }

\* The calls: list, recursive or not, and search, which is always recursive.
ListCalls ==
  { [op |-> "list", recursive |-> r, query |-> <<>>] : r \in BOOLEAN }
  \cup { [op |-> "search", recursive |-> TRUE, query |-> x] : x \in Queries }

(***************************************************************************)
(* The steps of a listModels call.  stack holds the scanDir calls that     *)
(* have not returned, the innermost last: [dir, entries, k], k = 0 before  *)
(* readdir has answered, then the index of the entry the loop is at.       *)
(***************************************************************************)
Frame(dir) == [dir |-> dir, entries |-> <<>>, k |-> 0]
Top == ls.stack[Len(ls.stack)]
SetTop(frame) == [ls.stack EXCEPT ![Len(ls.stack)] = frame]
Throw(text, path) == [ls EXCEPT !.st = "thrown", !.exc = [text |-> text, arg |-> Str(path)]]

\* Line 779: listModels calls scanDir(directory).
ListModels ==
  /\ ls.st = "called"
  /\ ls' = [ls EXCEPT !.st = "scan", !.stack = <<Frame(ls.directory)>>]
  /\ UNCHANGED <<file, pc, info, reader, reads, fds, exc, report, rv, cmp, bt, tm, tx, py, fc>>

\* Line 763: readdir answers, or raises its error, which nothing catches.
ScanDirRead ==
  /\ ls.st = "scan"
  /\ Top.k = 0
  /\ \E err \in {readdirError(Lookup(ls.fs, Top.dir))} :
       IF err # "none" THEN ls' = Throw(err, Top.dir)
       ELSE \E entries \in readdir(ls.fs, Top.dir) :
              ls' = [ls EXCEPT !.stack = SetTop([Top EXCEPT !.entries = entries, !.k = 1])]
  /\ UNCHANGED <<file, pc, info, reader, reads, fds, exc, report, rv, cmp, bt, tm, tx, py, fc>>

\* Lines 765-776: one pass of the loop over the entries.  A directory is
\* entered when the scan is recursive; a regular file with a model extension
\* is handed to getModelInfo, whose stat may raise, and the info is pushed.
ScanEntry ==
  /\ ls.st = "scan"
  /\ Top.k >= 1
  /\ Top.k <= Len(Top.entries)
  /\ \E entry \in {Top.entries[Top.k]} :
     \E fullPath \in {join(Top.dir, entry.name)} :
       IF descends(entry, ls.recursive)
       THEN ls' = [ls EXCEPT !.stack = Append(SetTop([Top EXCEPT !.k = @ + 1]), Frame(fullPath))]
       ELSE IF entry.type = "file" /\ isModelExtension(toLowerCase(extname(entry.name)))
       THEN IF Lookup(ls.fs, fullPath).err # "none"
            THEN ls' = Throw(Lookup(ls.fs, fullPath).err, fullPath)
            ELSE ls' = [ls EXCEPT !.stack = SetTop([Top EXCEPT !.k = @ + 1]),
                                  !.models = Append(@, getModelInfo(fullPath, Lookup(ls.fs, fullPath).data))]
       ELSE ls' = [ls EXCEPT !.stack = SetTop([Top EXCEPT !.k = @ + 1])]
  /\ UNCHANGED <<file, pc, info, reader, reads, fds, exc, report, rv, cmp, bt, tm, tx, py, fc>>

\* The loop of a scanDir call is over: the call returns to its caller.
ScanDirReturn ==
  /\ ls.st = "scan"
  /\ Top.k > Len(Top.entries)
  /\ ls' = [ls EXCEPT !.stack = SubSeq(@, 1, Len(@) - 1),
                      !.st = IF Len(ls.stack) = 1 THEN "scanned" ELSE "scan"]
  /\ UNCHANGED <<file, pc, info, reader, reads, fds, exc, report, rv, cmp, bt, tm, tx, py, fc>>

\* Lines 782-790: the totals and the sort.
ListModelsReturn ==
  /\ ls.st = "scanned"
  /\ ls' = [ls EXCEPT !.st = "returned", !.result = listResult(ls.directory, ls.models)]
  /\ UNCHANGED <<file, pc, info, reader, reads, fds, exc, report, rv, cmp, bt, tm, tx, py, fc>>

\* Lines 884-921: the list operation reports the result.
ExecuteList ==
  /\ ls.st = "returned"
  /\ ls.op = "list"
  /\ ls' = [ls EXCEPT !.st = "reported", !.lines = listLines(ls.result)]
  /\ UNCHANGED <<file, pc, info, reader, reads, fds, exc, report, rv, cmp, bt, tm, tx, py, fc>>

\* Lines 994-1018: the search operation filters the result and reports.
ExecuteSearch ==
  /\ ls.st = "returned"
  /\ ls.op = "search"
  /\ IF \E k \in 1..Len(ls.result.models) :
          /\ matchThrows(ls.result.models[k], toLowerCase(ls.query))
          /\ \A j \in 1..(k - 1) : ~matchThrows(ls.result.models[j], toLowerCase(ls.query))
     THEN ls' = [ls EXCEPT !.st = "thrown", !.exc = [text |-> "TypeError", arg |-> Str(ls.query)]]
     ELSE \E found \in {SelectSeq(ls.result.models, LAMBDA m : matches(m, toLowerCase(ls.query)))} :
            ls' = [ls EXCEPT !.st = "reported", !.found = found,
                             !.lines = searchLines(found, ls.query)]
  /\ UNCHANGED <<file, pc, info, reader, reads, fds, exc, report, rv, cmp, bt, tm, tx, py, fc>>

InitList ==
  /\ file = [path |-> <<>>, exists |-> FALSE, data |-> <<>>, src |-> [kind |-> "none"]]
  /\ pc = "listModels"
  /\ info = NoInfo
  /\ reader = NoReader
  /\ reads = <<>>
  /\ fds = NoFds
  /\ exc = NoException
  /\ report = <<>>
  /\ rv = IdleRv
  /\ cmp = IdleCmp
  /\ bt = IdleBt
  /\ tm = IdleTm
  /\ tx = IdleTx
  /\ py = IdlePy
  /\ fc = IdleFc
  /\ \E call \in ListCalls, fs \in Trees :
       ls = [st |-> "called", op |-> call.op, directory |-> Root, recursive |-> call.recursive,
             query |-> call.query, fs |-> fs, stack |-> <<>>, models |-> <<>>,
             exc |-> Undefined, result |-> Undefined, found |-> <<>>, lines |-> <<>>]

NextList ==
  \/ ListModels
  \/ ScanDirRead
  \/ ScanEntry
  \/ ScanDirReturn
  \/ ListModelsReturn
  \/ ExecuteList
  \/ ExecuteSearch

SpecList == InitList /\ [][NextList]_vars

(***************************************************************************)
(* The compare operation (editor.ts 923-987): two getModelInfo calls run   *)
(* by Promise.all, then the report.  Each call has its own locals: its     *)
(* ModelInfo and, inside parseGGUF, its own GGUFReader with the descriptor *)
(* openSync gave it and its own offset (561-578).  The calls take turns;   *)
(* the steps are those of the single call above, so the calls may change   *)
(* turns at every await and also between any two reads of a parser.        *)
(***************************************************************************)
CompareFile(path, exists, data) == [path |-> path, exists |-> exists, data |-> data]

QwenPair == Pair(ArchitectureKey, 8, EncStr(Qwen), Str(Qwen))
SevenPair == Pair(<<"a">>, 4, U32(7), [n |-> 7])

\* The files compare is given: good GGUF files with and without an
\* architecture and a quantization in the name, a corrupt one, a good and a
\* corrupt Safetensors file, a text file, and a path that names nothing.
CompareFiles ==
  << CompareFile(<<"a", ".", "g", "g", "u", "f">>, TRUE, GGUFBytes \o U32(3) \o U64(0) \o U64(2) \o ArchPair.enc \o SevenPair.enc),
     CompareFile(<<"b", "-", "q", "8", "_", "0", ".", "g", "g", "u", "f">>, TRUE, GGUFBytes \o U32(3) \o U64(1) \o U64(1) \o QwenPair.enc),
     CompareFile(<<"c", "-", "q", "4", "_", "0", ".", "g", "g", "u", "f">>, TRUE, GGUFBytes \o U32(2) \o U64(0) \o U64(1) \o SevenPair.enc),
     CompareFile(<<"d", ".", "g", "g", "u", "f">>, TRUE, GGUFBytes \o U32(3) \o U64(0) \o U64(0)),
     CompareFile(<<"b", "a", "d", ".", "g", "g", "u", "f">>, TRUE, NotGguf),
     CompareFile(<<"t", ".", "s", "a", "f", "e", "t", "e", "n", "s", "o", "r", "s">>, TRUE, TinySafetensors),
     CompareFile(<<"n", ".", "s", "a", "f", "e", "t", "e", "n", "s", "o", "r", "s">>, TRUE, NotJson),
     CompareFile(<<"n", "o", "t", "e", "s", ".", "t", "x", "t">>, TRUE, NotGguf),
     CompareFile(<<"g", "o", "n", "e", ".", "g", "g", "u", "f">>, FALSE, <<>>) >>

\* A call before it starts; f is the index of its file in CompareFiles, fd
\* the descriptor its parser holds (0: none).
NewCall(f) == [f |-> f, pc |-> "start", info |-> NoInfo, reader |-> NoReader, fd |-> 0,
               exc |-> Undefined]

\* openSync returns the lowest descriptor that is not open.
Descriptors == 3..4
openSync(open) == Min(Descriptors \ open)

\* A cursor that every call takes from the first call's reader.
sharedCursor(calls, c) == calls[1].reader.offset

\* Line 574: the position of a read is the calling reader's this.offset.
cursorOf(calls, c) == calls[c].reader.offset

\* The bytes behind the descriptor a call reads from.
fdData(c) == CompareFiles[cmp.fds[cmp.calls[c].fd]].data

SetCall(c, call) == [cmp.calls EXCEPT ![c] = call]
Opened(open) == IF Cardinality(open) > cmp.maxOpen THEN Cardinality(open) ELSE cmp.maxOpen

\* Lines 731-750: stat, the ModelInfo, the dispatch.  stat rejects on a
\* missing file, and the call rejects with it.
CallGetModelInfo(c) ==
  /\ cmp.calls[c].pc = "start"
  /\ \E f \in {CompareFiles[cmp.calls[c].f]} :
     \E fmt \in {formatOf(toLowerCase(extname(f.path)))} :
       IF ~f.exists
       THEN cmp' = [cmp EXCEPT !.calls = SetCall(c, [cmp.calls[c] EXCEPT
                       !.pc = "thrown", !.exc = [text |-> "ENOENT", arg |-> Str(f.path)]])]
       ELSE cmp' = [cmp EXCEPT !.calls = SetCall(c, [cmp.calls[c] EXCEPT
                       !.pc = IF fmt = "unknown" THEN "done" ELSE fmt,
                       !.info = [NoInfo EXCEPT !.path = f.path, !.name = basename(f.path),
                                               !.format = fmt, !.size = Len(f.data),
                                               !.sizeFormatted = formatSize(Len(f.data))]])]
  /\ UNCHANGED <<file, pc, info, reader, reads, fds, exc, report, rv, ls, bt, tm, tx, py, fc>>

\* Line 746: parseSafetensors opens, reads and closes without a pause.
CallParseSafetensors(c) ==
  /\ cmp.calls[c].pc = "safetensors"
  /\ \E r \in {parseSafetensors(cmp.calls[c].info.path, CompareFiles[cmp.calls[c].f].data)} :
       cmp' = [cmp EXCEPT
                 !.maxOpen = Opened(DOMAIN cmp.fds \cup {openSync(DOMAIN cmp.fds)}),
                 !.calls = SetCall(c, IF r.ok
                                      THEN [cmp.calls[c] EXCEPT !.pc = "done", !.info.details = r.val]
                                      ELSE [cmp.calls[c] EXCEPT !.pc = "catch", !.exc = r.msg])]
  /\ UNCHANGED <<file, pc, info, reader, reads, fds, exc, report, rv, ls, bt, tm, tx, py, fc>>

\* Lines 625-643: the call's reader is made on a descriptor of its own.
CallParseGGUFHeader(c) ==
  /\ cmp.calls[c].pc = "gguf"
  /\ \E fd \in {openSync(DOMAIN cmp.fds)} :
     \E h \in {ggufHeader(CompareFiles[cmp.calls[c].f].data)} :
       IF h.ok
       THEN cmp' = [cmp EXCEPT
                      !.fds = [d \in DOMAIN cmp.fds \cup {fd} |->
                                 IF d = fd THEN cmp.calls[c].f ELSE cmp.fds[d]],
                      !.maxOpen = Opened(DOMAIN cmp.fds \cup {fd}),
                      !.calls = SetCall(c, [cmp.calls[c] EXCEPT !.pc = "kv", !.fd = fd,
                                                                !.reader = h.val])]
       ELSE cmp' = [cmp EXCEPT
                      !.maxOpen = Opened(DOMAIN cmp.fds \cup {fd}),
                      !.calls = SetCall(c, [cmp.calls[c] EXCEPT !.pc = "catch", !.exc = h.msg])]
  /\ UNCHANGED <<file, pc, info, reader, reads, fds, exc, report, rv, ls, bt, tm, tx, py, fc>>

\* Lines 649-658: one pass of the call's key/value loop, read through the
\* call's descriptor at the call's cursor.
CallParseGGUFPair(c) ==
  /\ cmp.calls[c].pc = "kv"
  /\ cmp.calls[c].reader.i < cmp.calls[c].reader.maxKV
  /\ \E r \in {readPair(fdData(c), cursorOf(cmp.calls, c))} :
       cmp' = [cmp EXCEPT !.calls = SetCall(c,
                 IF r.ok
                 THEN [cmp.calls[c] EXCEPT !.reader.offset = r.off, !.reader.i = @ + 1,
                                           !.reader.metadata = ObjSet(@, r.key, r.val)]
                 ELSE [cmp.calls[c] EXCEPT !.reader.offset = r.off, !.pc = "broke"])]
  /\ UNCHANGED <<file, pc, info, reader, reads, fds, exc, report, rv, ls, bt, tm, tx, py, fc>>

\* Lines 660-704: the derived fields, the result, the reader closed.
CallParseGGUFFinish(c) ==
  /\ \/ cmp.calls[c].pc = "kv" /\ cmp.calls[c].reader.i >= cmp.calls[c].reader.maxKV
     \/ cmp.calls[c].pc = "broke"
  /\ cmp' = [cmp EXCEPT
               !.fds = [d \in DOMAIN cmp.fds \ {cmp.calls[c].fd} |-> cmp.fds[d]],
               !.calls = SetCall(c, [cmp.calls[c] EXCEPT
                            !.pc = "done", !.fd = 0,
                            !.info.details = ggufDetails(cmp.calls[c].info.path, Len(fdData(c)),
                                                         cmp.calls[c].reader)])]
  /\ UNCHANGED <<file, pc, info, reader, reads, fds, exc, report, rv, ls, bt, tm, tx, py, fc>>

\* Lines 751-755.
CallCatch(c) ==
  /\ cmp.calls[c].pc = "catch"
  /\ cmp' = [cmp EXCEPT !.calls = SetCall(c, [cmp.calls[c] EXCEPT
                           !.pc = "done", !.info = catchError(@, cmp.calls[c].exc)])]
  /\ UNCHANGED <<file, pc, info, reader, reads, fds, exc, report, rv, ls, bt, tm, tx, py, fc>>

\* Lines 949-957: the size line; the percentage is left uninterpreted.
sizeLine(size1, size2) ==
  IF size1 > size2
  THEN Line("Size larger", [by |-> formatSize(size1 - size2), pct |-> <<size1 - size2, size2>>])
  ELSE IF size1 < size2
  THEN Line("Size smaller", [by |-> formatSize(size2 - size1), pct |-> <<size1 - size2, size2>>])
  ELSE Line("Size identical", Undefined)

\* Lines 969-975 and 977-983: g1.field && g2.field, then the line.  g1 and g2
\* are the details, undefined for a file that failed to parse: reading a
\* property of undefined throws a TypeError.
fieldThrowsOn(g1, g2, field) ==
  IF IsUndefined(g1) THEN TRUE ELSE Truthy(g1[field]) /\ IsUndefined(g2)

fieldLine(label, g1, g2, field) ==
  IF Truthy(g1[field]) /\ Truthy(g2[field])
  THEN <<Line(label, [same |-> g1[field] = g2[field], v1 |-> g1[field], v2 |-> g2[field]])>>
  ELSE <<>>

\* Lines 965-984: the GGUF-specific comparison throws.
ggufCompareThrows(info1, info2) ==
  /\ info1.format = "gguf"
  /\ info2.format = "gguf"
  /\ \/ fieldThrowsOn(info1.details, info2.details, "architecture")
     \/ fieldThrowsOn(info1.details, info2.details, "quantization")

\* Lines 933-986: the report.
compareLines(info1, info2) ==
  << Line("Model Comparison", Undefined), Line("", Undefined),
     Line("Model 1", Str(info1.name)), Line("Format", formatUpper(info1.format)),
     Line("Size", info1.sizeFormatted), Line("", Undefined),
     Line("Model 2", Str(info2.name)), Line("Format", formatUpper(info2.format)),
     Line("Size", info2.sizeFormatted), Line("", Undefined),
     Line("Comparison:", Undefined), sizeLine(info1.size, info2.size) >>
  \o (IF info1.format # info2.format
      THEN <<Line("Format different", <<info1.format, info2.format>>)>> ELSE <<>>)
  \o (IF info1.format = "gguf" /\ info2.format = "gguf"
      THEN fieldLine("Architecture", info1.details, info2.details, "architecture")
           \o fieldLine("Quantization", info1.details, info2.details, "quantization")
      ELSE <<>>)

\* Lines 928-931: Promise.all rejects as soon as one call has rejected; the
\* other call runs on.
CompareReject ==
  /\ cmp.st = "awaiting"
  /\ \E c \in DOMAIN cmp.calls :
       /\ cmp.calls[c].pc = "thrown"
       /\ cmp' = [cmp EXCEPT !.st = "thrown", !.exc = cmp.calls[c].exc]
  /\ UNCHANGED <<file, pc, info, reader, reads, fds, exc, report, rv, ls, bt, tm, tx, py, fc>>

\* Lines 933-986: both calls have returned; the report, or the TypeError of
\* the GGUF-specific comparison.
ExecuteCompare ==
  /\ cmp.st = "awaiting"
  /\ \A c \in DOMAIN cmp.calls : cmp.calls[c].pc = "done"
  /\ IF ggufCompareThrows(cmp.calls[1].info, cmp.calls[2].info)
     THEN cmp' = [cmp EXCEPT !.st = "thrown", !.exc = [text |-> "TypeError", arg |-> Undefined]]
     ELSE cmp' = [cmp EXCEPT !.st = "reported",
                             !.lines = compareLines(cmp.calls[1].info, cmp.calls[2].info)]
  /\ UNCHANGED <<file, pc, info, reader, reads, fds, exc, report, rv, ls, bt, tm, tx, py, fc>>

InitCompare ==
  /\ file = [path |-> <<>>, exists |-> FALSE, data |-> <<>>, src |-> [kind |-> "none"]]
  /\ pc = "compare"
  /\ info = NoInfo
  /\ reader = NoReader
  /\ reads = <<>>
  /\ fds = NoFds
  /\ exc = NoException
  /\ report = <<>>
  /\ rv = IdleRv
  /\ ls = IdleLs
  /\ bt = IdleBt
  /\ tm = IdleTm
  /\ tx = IdleTx
  /\ py = IdlePy
  /\ fc = IdleFc
  /\ \E f1, f2 \in DOMAIN CompareFiles :
       cmp = [st |-> "awaiting", calls |-> <<NewCall(f1), NewCall(f2)>>, fds |-> <<>>,
              maxOpen |-> 0, exc |-> Undefined, lines |-> <<>>]

NextCompare ==
  \/ \E c \in {1, 2} : CallGetModelInfo(c)
  \/ \E c \in {1, 2} : CallParseSafetensors(c)
  \/ \E c \in {1, 2} : CallParseGGUFHeader(c)
  \/ \E c \in {1, 2} : CallParseGGUFPair(c)
  \/ \E c \in {1, 2} : CallParseGGUFFinish(c)
  \/ \E c \in {1, 2} : CallCatch(c)
  \/ CompareReject
  \/ ExecuteCompare

SpecCompare == InitCompare /\ [][NextCompare]_vars

(***************************************************************************)
(* efs_batch: executeBatchOperations and executeOperation                  *)
(* (src/core/batch.ts 28-149).  The file system maps each path to          *)
(* [exists, content]; a text is a sequence of characters.  An operation    *)
(* is [op, path, content, oldText, newText, source, destination], a field  *)
(* the caller left out being the empty text or the empty path "".          *)
(***************************************************************************)
\* The most operations a batch holds.
MaxOps == 2

Paths == {"a", "b"}
NoPath == ""
Missing == [exists |-> FALSE, content |-> <<>>]
FileOf(content) == [exists |-> TRUE, content |-> content]

Operation(op, path, content, oldText, newText, source, destination) ==
  [op |-> op, path |-> path, content |-> content, oldText |-> oldText, newText |-> newText,
   source |-> source, destination |-> destination]

\* The operations of the batches: reads, writes, edits (one without
\* newText), deletes, and moves with and without the source field and
\* without a destination.
Operations ==
  { Operation("read", p, <<>>, <<>>, <<>>, NoPath, NoPath) : p \in Paths }
  \cup { Operation("write", p, <<"y">>, <<>>, <<>>, NoPath, NoPath) : p \in Paths }
  \cup { Operation("edit", p, <<>>, <<"x">>, <<"z">>, NoPath, NoPath) : p \in Paths }
  \cup { Operation("edit", "a", <<>>, <<"x">>, <<>>, NoPath, NoPath) }
  \cup { Operation("delete", p, <<>>, <<>>, <<>>, NoPath, NoPath) : p \in Paths }
  \cup { Operation("move", p, <<>>, <<>>, <<>>, NoPath, CHOOSE d \in Paths : d # p) : p \in Paths }
  \cup { Operation("move", p, <<>>, <<>>, <<>>, p, CHOOSE d \in Paths : d # p) : p \in Paths }
  \cup { Operation("move", "a", <<>>, <<>>, <<>>, "a", NoPath) }

Batches == UNION { [1..n -> Operations] : n \in 0..MaxOps }

FileSystems == [Paths -> {Missing, FileOf(<<"x", "x">>)}]

\* fs.readFile(path, 'utf-8'): the content, or the rejection.
readFile(fs, path) ==
  IF path \in DOMAIN fs /\ fs[path].exists THEN [ok |-> TRUE, val |-> fs[path].content]
  ELSE [ok |-> FALSE, msg |-> "ENOENT"]

\* fs.writeFile(path, content, 'utf-8')
writeFile(fs, path, content) == [fs EXCEPT ![path] = FileOf(content)]

\* editFile with count 1 (editor.ts 17-80): the first occurrence of oldText
\* is replaced; without an occurrence the content is written back as it is.
replaceFirst(content, oldText, newText) ==
  LET at == {k \in 1..(Len(content) - Len(oldText) + 1) :
               SubSeq(content, k, k + Len(oldText) - 1) = oldText}
  IN  IF at = {} THEN content
      ELSE SubSeq(content, 1, Min(at) - 1) \o newText
           \o SubSeq(content, Min(at) + Len(oldText), Len(content))

Done(fs, result) == [ok |-> TRUE, fs |-> fs, result |-> result]
Failed(msg) == [ok |-> FALSE, msg |-> msg]

\* Lines 104-149: the effect of one operation on the file system and its
\* result, or the exception it throws before it has changed anything.
executeOperation(fs, op) ==
  IF op.op = "read"
  THEN IF readFile(fs, op.path).ok
       THEN Done(fs, [op |-> "read", path |-> op.path, content |-> readFile(fs, op.path).val])
       ELSE Failed("ENOENT")
  ELSE IF op.op = "write"
  THEN Done(writeFile(fs, op.path, op.content), [op |-> "write", path |-> op.path, size |-> Len(op.content)])
  ELSE IF op.op = "edit"
  THEN IF op.oldText = <<>> \/ op.newText = <<>> THEN Failed("Edit requires oldText and newText")
       ELSE IF ~readFile(fs, op.path).ok THEN Failed("ENOENT")
       ELSE Done(writeFile(fs, op.path, replaceFirst(fs[op.path].content, op.oldText, op.newText)),
                 [op |-> "edit", path |-> op.path])
  ELSE IF op.op = "delete"
  THEN Done([fs EXCEPT ![op.path] = Missing], [op |-> "delete", path |-> op.path])
  ELSE IF op.op = "move"
  THEN IF op.destination = NoPath THEN Failed("Move requires destination")
       ELSE IF ~fs[op.path].exists THEN Failed("ENOENT")
       ELSE Done([fs EXCEPT ![op.destination] = fs[op.path], ![op.path] = Missing],
                 [op |-> "move", from |-> op.path, to |-> op.destination])
  ELSE Failed("Unknown operation")

\* Lines 38-48: the backups, a map from path to content in the order of
\* insertion.  The path backed up for a move is op.source, for the others
\* op.path; a path that cannot be read gets no backup.
backupTarget(op) == IF op.op = "move" THEN op.source ELSE op.path

mapSet(map, key, val) ==
  IF \E k \in 1..Len(map) : map[k].key = key
  THEN [k \in 1..Len(map) |-> IF map[k].key = key THEN [key |-> key, val |-> val] ELSE map[k]]
  ELSE Append(map, [key |-> key, val |-> val])

RECURSIVE createBackups(_, _, _)
createBackups(fs, ops, n) ==
  IF n = 0 THEN <<>>
  ELSE IF ops[n].op \in {"write", "edit", "delete", "move"} /\ readFile(fs, backupTarget(ops[n])).ok
  THEN mapSet(createBackups(fs, ops, n - 1), backupTarget(ops[n]), readFile(fs, backupTarget(ops[n])).val)
  ELSE createBackups(fs, ops, n - 1)

\* Lines 87-93: every backup is written back.
RECURSIVE rollback(_, _, _)
rollback(fs, backups, n) ==
  IF n = 0 THEN fs
  ELSE writeFile(rollback(fs, backups, n - 1), backups[n].key, backups[n].val)

IsReadOp(op) == op.op \in {"read", "list"}
IsWriteOp(op) == ~IsReadOp(op)

\* Lines 29-49: the call starts; the backups are taken when atomic.
BatchBackup ==
  /\ bt.st = "called"
  /\ bt' = [bt EXCEPT !.st = IF bt.parallel THEN "reads" ELSE "execute",
                      !.todo = IF bt.parallel THEN SelectSeq(bt.operations, IsWriteOp)
                               ELSE bt.operations,
                      !.backups = IF bt.atomic
                                  THEN createBackups(bt.fs, bt.operations, Len(bt.operations))
                                  ELSE <<>>]
  /\ UNCHANGED <<file, pc, info, reader, reads, fds, exc, report, rv, ls, cmp, tm, tx, py, fc>>

\* Lines 54-61: the read operations run together; one rejection rejects
\* Promise.all and no result is pushed.
BatchReads ==
  /\ bt.st = "reads"
  /\ \E readOps \in {SelectSeq(bt.operations, IsReadOp)} :
       IF \E k \in 1..Len(readOps) : ~executeOperation(bt.fs, readOps[k]).ok
       THEN \E k \in {j \in 1..Len(readOps) : ~executeOperation(bt.fs, readOps[j]).ok} :
              bt' = [bt EXCEPT !.st = "catch", !.error = executeOperation(bt.fs, readOps[k]).msg]
       ELSE bt' = [bt EXCEPT !.st = "execute",
                             !.results = [k \in 1..Len(readOps) |->
                                            executeOperation(bt.fs, readOps[k]).result]]
  /\ UNCHANGED <<file, pc, info, reader, reads, fds, exc, report, rv, ls, cmp, tm, tx, py, fc>>

\* Lines 64-67 and 70-73: the next operation runs; its exception leaves the
\* loop for the catch clause.
BatchExecute ==
  /\ bt.st = "execute"
  /\ bt.k <= Len(bt.todo)
  /\ \E r \in {executeOperation(bt.fs, bt.todo[bt.k])} :
       IF r.ok
       THEN bt' = [bt EXCEPT !.fs = r.fs, !.k = @ + 1, !.results = Append(@, r.result)]
       ELSE bt' = [bt EXCEPT !.st = "catch", !.error = r.msg]
  /\ UNCHANGED <<file, pc, info, reader, reads, fds, exc, report, rv, ls, cmp, tm, tx, py, fc>>

\* Lines 76-80: every operation has run.
BatchReturn ==
  /\ bt.st = "execute"
  /\ bt.k > Len(bt.todo)
  /\ bt' = [bt EXCEPT !.st = "returned", !.success = TRUE]
  /\ UNCHANGED <<file, pc, info, reader, reads, fds, exc, report, rv, ls, cmp, tm, tx, py, fc>>

\* Lines 82-100: the error is recorded, the backups are written back when
\* atomic, and the call returns success = false.
BatchCatch ==
  /\ bt.st = "catch"
  /\ bt' = [bt EXCEPT !.st = "returned", !.success = FALSE,
                      !.errors = Append(@, bt.error),
                      !.fs = IF bt.atomic /\ Len(bt.backups) > 0
                             THEN rollback(bt.fs, bt.backups, Len(bt.backups))
                             ELSE bt.fs]
  /\ UNCHANGED <<file, pc, info, reader, reads, fds, exc, report, rv, ls, cmp, tm, tx, py, fc>>

InitBatch ==
  /\ file = [path |-> <<>>, exists |-> FALSE, data |-> <<>>, src |-> [kind |-> "none"]]
  /\ pc = "batch"
  /\ info = NoInfo
  /\ reader = NoReader
  /\ reads = <<>>
  /\ fds = NoFds
  /\ exc = NoException
  /\ report = <<>>
  /\ rv = IdleRv
  /\ ls = IdleLs
  /\ cmp = IdleCmp
  /\ tm = IdleTm
  /\ tx = IdleTx
  /\ py = IdlePy
  /\ fc = IdleFc
  /\ \E fs \in FileSystems, ops \in Batches, atomic \in BOOLEAN, parallel \in BOOLEAN :
       bt = [st |-> "called", before |-> fs, fs |-> fs, operations |-> ops, atomic |-> atomic,
             parallel |-> parallel, backups |-> <<>>, todo |-> <<>>, k |-> 1,
             results |-> <<>>, errors |-> <<>>, error |-> "", success |-> FALSE]

NextBatch ==
  \/ BatchBackup
  \/ BatchReads
  \/ BatchExecute
  \/ BatchReturn
  \/ BatchCatch

SpecBatch == InitBatch /\ [][NextBatch]_vars

(***************************************************************************)
(* Properties.                                                             *)
(***************************************************************************)
Returned == pc \in {"done", "reported"}

\* The lower-cased extension of the file is .gguf or .safetensors.
IsGgufPath == toLowerCase(extname(file.path)) = GgufExt
IsSafetensorsPath == toLowerCase(extname(file.path)) = SafetensorsExt

\* C1: an exception thrown inside parseSafetensors or parseGGUF never leaves
\* getModelInfo: it is caught, and the ModelInfo returned has the format of
\* the extension, the exception's message as error and no details.  The only
\* exception that leaves getModelInfo is stat's, on a missing file.
C1_ParserExceptionCaught ==
  /\ exc.st = "inflight" => pc = "catch"
  /\ exc.st = "escaped" => ~file.exists /\ pc = "thrown"
  /\ exc.st = "caught" =>
       /\ Returned
       /\ info.format \in {"safetensors", "gguf"}
       /\ info.format = "gguf" <=> IsGgufPath
       /\ info.format = "safetensors" <=> IsSafetensorsPath
       /\ info.error = exc.msg
       /\ ~IsUndefined(info.error)
       /\ IsUndefined(info.details)

\* A malformed safetensors header has been caught and reported as the error.
C1_Witness ==
  /\ pc = "done"
  /\ exc.st = "caught"
  /\ info.format = "safetensors"
  /\ info.error.text = "SyntaxError"
  /\ IsUndefined(info.details)

\* The pairs of a list that precede its first pair that cannot be decoded.
FirstBad(pairs) ==
  IF \E j \in 1..Len(pairs) : pairs[j].bad
  THEN Min({j \in 1..Len(pairs) : pairs[j].bad})
  ELSE Len(pairs) + 1

Decodable(pairs) == SubSeq(pairs, 1, FirstBad(pairs) - 1)

\* The value the last of these pairs with this key holds.
LastValue(pairs, key) == pairs[Max({j \in 1..Len(pairs) : pairs[j].key = key})].val

\* The dictionary m holds exactly what these pairs assign, a later pair with
\* the key of an earlier one replacing its value.
HoldsExactly(m, pairs) ==
  /\ {m[j].k : j \in 1..Len(m)} = {pairs[j].key : j \in 1..Len(pairs)}
  /\ Len(m) = Cardinality({pairs[j].key : j \in 1..Len(pairs)})
  /\ \A j \in 1..Len(m) : m[j].v = LastValue(pairs, m[j].k)

BadStart ==
  /\ file.exists
  /\ IsGgufPath
  /\ \/ SubSeq(Data(file), 1, Min({4, Len(Data(file))})) # GGUFBytes
     \/ Len(Data(file)) >= 8 /\ SubSeq(Data(file), 5, 8) \notin {U32(2), U32(3)}

\* C3: a .gguf file whose first four bytes are not "GGUF", or whose uint32 at
\* offset 4 is not 2 or 3, yields format gguf, an error, no details, and no
\* key/value pair is decoded.
C3_BadHeaderRejected ==
  (Returned /\ BadStart) =>
    /\ info.format = "gguf"
    /\ ~IsUndefined(info.error)
    /\ IsUndefined(info.details)
    /\ reader = NoReader

\* A file that starts with the bytes C7 47 55 46 and holds version 3 has been
\* parsed as GGUF: no error, and its key/value pair decoded.
C3_Witness ==
  /\ pc = "done"
  /\ BadStart
  /\ Len(Data(file)) >= 8
  /\ SubSeq(Data(file), 1, 8) = <<199, 71, 85, 70>> \o U32(3)
  /\ IsUndefined(info.error)
  /\ ~IsUndefined(info.details)
  /\ reader.i = 1
  /\ Len(info.details.metadata) = 1

\* The JavaScript number a uint64 of the input files becomes: itself below
\* 2^53, the nearest double beyond.
NearestDouble(v) ==
  IF v = [big |-> Strip(Big53p1), neg |-> FALSE] THEN Pow53
  ELSE IF v = [big |-> AllOnes64, neg |-> FALSE]
  THEN [big |-> <<0, 0, 0, 0, 0, 0, 0, 0, 1>>, neg |-> FALSE]
  ELSE v

\* The file's own bytes start with "GGUF" and version 2 or 3.
ValidStart ==
  /\ file.exists
  /\ IsGgufPath
  /\ Len(Data(file)) >= 8
  /\ SubSeq(Data(file), 1, 4) = GGUFBytes
  /\ SubSeq(Data(file), 5, 8) \in {U32(2), U32(3)}

\* C4 (amended): a .gguf file that starts with "GGUF" and version 2 or 3 is
\* parsed without error whatever follows; version is the header's, and
\* tensorCount and metadataKVCount are the header's counts as JavaScript
\* numbers: equal to them below 2^53, the nearest double beyond.  Bytes a
\* truncated header lacks are read as zeros.
C4_ValidHeaderSucceeds ==
  (Returned /\ ValidStart) =>
    /\ exc.st = "none"
    /\ IsUndefined(info.error)
    /\ ~IsUndefined(info.details)
    /\ info.details.version = [n |-> Data(file)[5]]
    /\ Len(Data(file)) >= 24 =>
         /\ info.details.tensorCount = NearestDouble(file.src.tensorCount)
         /\ info.details.metadataKVCount = NearestDouble(file.src.kvCount)
    /\ Len(Data(file)) < 24 =>
         /\ info.details.tensorCount = [n |-> IF Len(Data(file)) >= 9 THEN file.src.tensorCount.n ELSE 0]
         /\ info.details.metadataKVCount = [n |-> IF Len(Data(file)) >= 17 THEN file.src.kvCount.n ELSE 0]

\* A header whose tensor count is 2^53 + 1 has been parsed: the count reported
\* is 2^53.
C4_Witness ==
  /\ pc = "done"
  /\ ValidStart
  /\ Len(Data(file)) >= 24
  /\ SubSeq(Data(file), 9, 16) = Big53p1
  /\ IsUndefined(info.error)
  /\ info.details.tensorCount = Pow53

\* C4 as stated: with a whole header, the counts returned equal the counts
\* the header encodes.
C4_CountsEqualHeader ==
  (Returned /\ ValidStart /\ Len(Data(file)) >= 24) =>
    /\ IsUndefined(info.error)
    /\ ~IsUndefined(info.details)
    /\ info.details.version = [n |-> Data(file)[5]]
    /\ info.details.tensorCount = file.src.tensorCount
    /\ info.details.metadataKVCount = file.src.kvCount

\* C5: a .safetensors file whose first 8 bytes encode more than 100 MiB yields
\* an error and no details, no exception leaves getModelInfo, and the only
\* read issued is that of the 8 size bytes; so every SafetensorsMetadata
\* returned has headerSize <= 104857600.
C5_HeaderSizeBound ==
  /\ (Returned /\ info.format = "safetensors"
        /\ GreaterThan(file.src.headerSize, MaxHeaderSize)) =>
       /\ exc.st = "caught"
       /\ ~IsUndefined(info.error)
       /\ IsUndefined(info.details)
       /\ Len(reads) = 1
       /\ reads[1] = [pos |-> 0, len |-> [n |-> 8]]
  /\ (info.format = "safetensors" /\ ~IsUndefined(info.details)) =>
       /\ IsSmall(info.details.headerSize)
       /\ info.details.headerSize.n <= MaxHeaderSize
       /\ info.details.headerSize.n >= 0

\* A header size of 100 MiB + 1 has been refused after the size read alone.
C5_Witness ==
  /\ pc = "done"
  /\ info.format = "safetensors"
  /\ file.src.headerSize = [n |-> MaxHeaderSize + 1]
  /\ info.error.text = "Header size too large"
  /\ reads = <<[pos |-> 0, len |-> [n |-> 8]]>>

\* The product of the dimensions of a shape, 1 for the empty shape, and the
\* sum of the products of these shapes.
RECURSIVE DimProduct(_)
DimProduct(shape) == IF shape = <<>> THEN 1 ELSE Head(shape) * DimProduct(Tail(shape))

RECURSIVE SumOfProducts(_)
SumOfProducts(shapes) ==
  IF shapes = <<>> THEN 0 ELSE DimProduct(Head(shapes)) + SumOfProducts(Tail(shapes))

\* C6: for a well-formed safetensors header, parameters is the sum over the
\* keys other than __metadata__ of the product of the tensor's shape, an empty
\* shape counting 1; __metadata__ adds nothing and is no tensor.
C6_ParametersSum ==
  (Returned /\ file.src.kind = "wellformed") =>
    /\ IsUndefined(info.error)
    /\ ~IsUndefined(info.details)
    /\ info.details.parameters = [n |-> SumOfProducts(file.src.shapes)]
    /\ info.details.tensorCount = Len(file.src.shapes)
    /\ Len(info.details.tensors) = Len(file.src.shapes)
    /\ \A k \in 1..Len(info.details.tensors) :
         /\ info.details.tensors[k].name = TensorName(k)
         /\ info.details.tensors[k].name # MetadataKey
         /\ info.details.tensors[k].shape =
              [arr |-> [j \in 1..Len(file.src.shapes[k]) |-> [n |-> file.src.shapes[k][j]]]]
    /\ IsUndefined(info.details.metadata) <=> file.src.meta = "none"

\* Shapes [[2,3],[],[4]] behind a __metadata__ key have been counted as 11.
C6_Witness ==
  /\ pc = "done"
  /\ file.src.kind = "wellformed"
  /\ file.src.shapes = << <<2, 3>>, <<>>, <<4>> >>
  /\ file.src.meta = "first"
  /\ info.details.parameters = [n |-> 11]
  /\ info.details.tensorCount = 3

CappedCount(count) == IF IsSmall(count) /\ count.n < 500 THEN count.n ELSE 500

\* The key/value section of a .gguf file with a whole, valid header is being
\* decoded or has been.
Decoding ==
  /\ pc \in {"kv", "broke", "done", "reported"}
  /\ ValidStart
  /\ Len(Data(file)) >= 24

LastSegment(path) ==
  IF Positions(path, "/") = {} THEN path
  ELSE SubSeq(path, Max(Positions(path, "/")) + 1, Len(path))

QuantOrder ==
  << <<"q", "2", "_", "k">>, <<"q", "3", "_", "k">>, <<"q", "4", "_", "k">>,
     <<"q", "4", "_", "0">>, <<"q", "4", "_", "1">>, <<"q", "5", "_", "k">>,
     <<"q", "5", "_", "0">>, <<"q", "5", "_", "1">>, <<"q", "6", "_", "k">>,
     <<"q", "8", "_", "0">>, <<"q", "8", "_", "1">>, <<"f", "1", "6">>,
     <<"f", "3", "2">>, <<"b", "f", "1", "6">>, <<"i", "q", "2">>,
     <<"i", "q", "3">>, <<"i", "q", "4">> >>

\* The entries of QuantOrder that occur in the lower-cased base name.
Occurring(path) ==
  {k \in 1..Len(QuantOrder) : includes(toLowerCase(LastSegment(path)), QuantOrder[k])}

MistralName ==
  <<"m", "i", "s", "t", "r", "a", "l", "-", "7", "b", ".", "Q", "4", "_", "K", "_", "M", ".", "g", "g", "u", "f">>

\* C10: the info operation on mistral-7b.Q4_K_M.gguf reports the
\* quantization Q4_K_M, the whole tag of the file name.
C10_ReportsFullTag ==
  (pc = "reported" /\ info.name = MistralName /\ IsUndefined(info.error)) =>
    /\ info.details.quantization = Str(<<"Q", "4", "_", "K", "_", "M">>)
    /\ \E k \in 1..Len(report) :
         /\ report[k].label = "Quantization"
         /\ report[k].v = Str(<<"Q", "4", "_", "K", "_", "M">>)

\* The report on mistral-7b.Q4_K_M.gguf says Quantization: Q4_K.
C10_Witness ==
  /\ pc = "reported"
  /\ info.name = MistralName
  /\ info.details.quantization = Str(<<"Q", "4", "_", "K">>)
  /\ \E k \in 1..Len(report) :
       /\ report[k].label = "Quantization"
       /\ report[k].v = Str(<<"Q", "4", "_", "K">>)

\* The value a field takes when the architecture's key wins whenever it is
\* in the file and the llama key counts only in its absence.
Pick(s) ==
  IF s[1] # Absent THEN [n |-> s[1]]
  ELSE IF s[2] # Absent THEN [n |-> s[2]]
  ELSE Undefined

\* C11: contextLength is the value of the architecture's context_length key
\* whenever the file holds that key, whatever the value (0 included), and
\* the value of llama.context_length only when it does not; likewise
\* embeddingLength.
C11_ArchKeyWins ==
  (Returned /\ file.src.kind = "arch") =>
    /\ info.details.contextLength = Pick(file.src.fields.ctx)
    /\ info.details.embeddingLength = Pick(file.src.fields.emb)

\* qwen.context_length = 0 beside llama.context_length = 2048 has been
\* returned as a context length of 2048.
C11_Witness ==
  /\ pc = "done"
  /\ file.src.kind = "arch"
  /\ file.src.fields.arch = Qwen
  /\ file.src.fields.ctx = <<0, 2048>>
  /\ ObjGet(info.details.metadata, Qwen \o ContextSuffix) = [n |-> 0]
  /\ info.details.contextLength = [n |-> 2048]

\* C12: parameters is present exactly when embeddingLength and the block
\* count are both present, and is then embeddingLength^2 * blockCount * 4.
\* Stated for the files whose block count is the same under either reading
\* of "else" (the architecture's block_count key is absent or not 0).
C12_ParametersWhenPresent ==
  (Returned /\ file.src.kind = "arch" /\ file.src.fields.blk[1] # 0) =>
    IF ~IsUndefined(info.details.embeddingLength) /\ ~IsUndefined(Pick(file.src.fields.blk))
    THEN info.details.parameters =
           [n |-> info.details.embeddingLength.n * info.details.embeddingLength.n
                    * Pick(file.src.fields.blk).n * 4]
    ELSE IsUndefined(info.details.parameters)

\* An embedding length of 0 and a block count of 2 have been returned with
\* no parameters.
C12_Witness ==
  /\ pc = "done"
  /\ file.src.kind = "arch"
  /\ file.src.fields.emb = <<Absent, 0>>
  /\ file.src.fields.blk = <<2, Absent>>
  /\ info.details.embeddingLength = [n |-> 0]
  /\ IsUndefined(info.details.parameters)

\* C13: for an existing file whose extension is neither .safetensors nor .gguf
\* (compared case-insensitively) getModelInfo returns format "unknown" with
\* neither details nor error, and no parser runs: no descriptor is opened, no
\* read is issued, the reader is untouched and no exception is raised.
C13_UnknownFormat ==
  (pc # "start" /\ file.exists /\ ~IsGgufPath /\ ~IsSafetensorsPath) =>
    /\ Returned
    /\ info.format = "unknown"
    /\ IsUndefined(info.details)
    /\ IsUndefined(info.error)
    /\ info.size = Len(Data(file))
    /\ fds = NoFds
    /\ reads = <<>>
    /\ reader = NoReader
    /\ exc = NoException

\* A file named m.gguf.bak that holds a valid GGUF header has been inspected.
C13_Witness ==
  /\ pc = "done"
  /\ file.src.kind = "other"
  /\ extname(file.path) = <<".", "b", "a", "k">>
  /\ Len(Data(file)) = 24
  /\ info.format = "unknown"
  /\ fds.opened = 0

\* The listed call has returned from listModels.
Listed == ls.st \in {"returned", "reported"}

\* The regular files a listing of the directory is to return: those with a
\* model extension below the directory, or directly in it.
IsBelow(p, dir) == Len(p) > Len(dir) + 1 /\ SubSeq(p, 1, Len(dir) + 1) = dir \o <<"/">>
ModelFiles ==
  { n \in ls.fs :
      /\ n.type = "file"
      /\ toLowerCase(extname(n.path)) \in {GgufExt, SafetensorsExt}
      /\ IF ls.recursive THEN IsBelow(n.path, ls.directory) ELSE dirname(n.path) = ls.directory }

RECURSIVE TotalLength(_)
TotalLength(nodes) ==
  IF nodes = {} THEN 0
  ELSE LET n == CHOOSE m \in nodes : TRUE IN Len(n.data) + TotalLength(nodes \ {n})

\* C14: listModels returns one ModelInfo for each regular file with a model
\* extension under the directory (the whole subtree when recursive, the direct
\* children when not) and for nothing else (no directory, no link, no other
\* extension); totalCount is the number of models and totalSize the sum of
\* their sizes; files of 100, 200 and 300 bytes give 3 and 600.
C14_ListsModelFiles ==
  Listed =>
    /\ {ls.result.models[k].path : k \in 1..Len(ls.result.models)} = {n.path : n \in ModelFiles}
    /\ Len(ls.result.models) = Cardinality(ModelFiles)
    /\ \A k \in 1..Len(ls.result.models) :
         ls.result.models[k].size = Len(Lookup(ls.fs, ls.result.models[k].path).data)
    /\ ls.result.totalCount = Len(ls.result.models)
    /\ ls.result.totalSize = TotalLength(ModelFiles)
    /\ ls.fs = SizedTree => ls.result.totalCount = 3 /\ ls.result.totalSize = 600

\* The three files of 100, 200 and 300 bytes have been listed.
C14_Witness ==
  /\ ls.st = "returned"
  /\ ls.fs = SizedTree
  /\ ls.result.totalCount = 3
  /\ ls.result.totalSize = 600

\* C15: the models returned are in ascending order of their names compared
\* code unit by code unit, so that "B.gguf" precedes "a.gguf".
C15_CodeUnitOrder ==
  Listed =>
    \A k \in 1..(Len(ls.result.models) - 1) :
      SeqCompare(CodeUnits(ls.result.models[k].name), CodeUnits(ls.result.models[k + 1].name)) <= 0

\* a.gguf, A.gguf and B.gguf have been listed, in that order.
C15_Witness ==
  /\ ls.st = "returned"
  /\ ls.fs = CaseTree
  /\ [k \in 1..3 |-> ls.result.models[k].name] = <<<<"a", ".", "g", "g", "u", "f">>, <<"A", ".", "g", "g", "u", "f">>, <<"B", ".", "g", "g", "u", "f">>>>

\* A model file whose content is no model: a .gguf file that does not start
\* with the magic, a .safetensors file whose header is no JSON text.
IsCorrupt(n) ==
  \/ toLowerCase(extname(n.path)) = GgufExt /\ AsciiDecode(readBytes(n.data, 0, 4)) # GGUFMagic
  \/ toLowerCase(extname(n.path)) = SafetensorsExt /\ n.data = NotJson

ExtensionFormat(p) == IF toLowerCase(extname(p)) = GgufExt THEN "gguf" ELSE "safetensors"

\* C16: a model file that fails to parse aborts neither list nor search: the
\* only exceptions that end the call are those of the file system, and the
\* result holds every model file, the corrupt one with its size, the format
\* of its extension, an error and no details.
C16_CorruptFileListed ==
  /\ ls.st = "thrown" => ls.exc.text \in {"EACCES", "ENOENT", "ENOTDIR"}
  /\ Listed =>
       \A n \in ModelFiles :
         \E k \in 1..Len(ls.result.models) :
           /\ ls.result.models[k].path = n.path
           /\ IsCorrupt(n) =>
                /\ ls.result.models[k].size = Len(n.data)
                /\ ls.result.models[k].format = ExtensionFormat(n.path)
                /\ ~IsUndefined(ls.result.models[k].error)
                /\ ls.result.models[k].error.text \in {"Invalid GGUF magic", "SyntaxError"}
                /\ IsUndefined(ls.result.models[k].details)

\* A search has reported on a directory that holds a corrupt B.gguf and a
\* corrupt sub/c.safetensors beside a good sub/b.GGUF.
C16_Witness ==
  /\ ls.st = "reported"
  /\ ls.op = "search"
  /\ Len(ls.result.models) = 3
  /\ \E n \in ModelFiles : IsCorrupt(n) /\ toLowerCase(extname(n.path)) = GgufExt
  /\ \E n \in ModelFiles : IsCorrupt(n) /\ toLowerCase(extname(n.path)) = SafetensorsExt
  /\ \E k \in 1..3 : ~IsUndefined(ls.result.models[k].details)

\* The directory listed can be read.
RootReadable == \E n \in ls.fs : n.path = ls.directory /\ n.type = "dir" /\ n.err = "none"

\* C17: a resource error on a file or a subdirectory met during the scan does
\* not end the call: listModels never ends with that error, and when all is
\* read it returns.
C17_ScanErrorSkipped ==
  RootReadable => ~(ls.st = "thrown" /\ ls.exc.text \in {"EACCES", "ENOENT"})

\* The scan has found a.gguf and then ended on the unreadable directory.
C17_Witness ==
  /\ ls.st = "thrown"
  /\ RootReadable
  /\ ls.exc = [text |-> "EACCES", arg |-> Str(<<"/", "m", "/", "l", "o", "c", "k", "e", "d">>)]
  /\ Len(ls.models) = 1
  /\ ls.models[1].name = <<"a", ".", "g", "g", "u", "f">>

\* Both paths given to compare name existing files.
BothExist == \A c \in DOMAIN cmp.calls : CompareFiles[cmp.calls[c].f].exists

\* C18: compare on two existing paths never throws: a file that fails to
\* parse, also one of two .gguf files, still yields the comparison report.
C18_CompareNeverThrows == (cmp.st # "idle" /\ BothExist) => cmp.st # "thrown"

\* compare has thrown a TypeError on bad.gguf and a.gguf, both inspected
\* without an exception, the first with an error and no details.
C18_Witness ==
  /\ cmp.st = "thrown"
  /\ cmp.exc.text = "TypeError"
  /\ cmp.calls[1].info.name = <<"b", "a", "d", ".", "g", "g", "u", "f">>
  /\ cmp.calls[2].info.name = <<"a", ".", "g", "g", "u", "f">>
  /\ cmp.calls[1].pc = "done"
  /\ cmp.calls[2].pc = "done"
  /\ ~IsUndefined(cmp.calls[1].info.error)
  /\ IsUndefined(cmp.calls[1].info.details)

\* C19: concurrent getModelInfo calls do not disturb one another, whatever
\* the order of their steps: a call that returns, returns what getModelInfo
\* returns on its file alone; a call rejects only on a missing file; while
\* two readers are open they hold different descriptors, each on the file of
\* its own call, and no descriptor stays open behind a finished call.
C19_CallsIndependent ==
  cmp.st # "idle" =>
    /\ \A c \in DOMAIN cmp.calls :
         /\ cmp.calls[c].pc = "done" =>
              cmp.calls[c].info = getModelInfo(CompareFiles[cmp.calls[c].f].path,
                                               CompareFiles[cmp.calls[c].f].data)
         /\ cmp.calls[c].pc = "thrown" => ~CompareFiles[cmp.calls[c].f].exists
         /\ cmp.calls[c].fd # 0 =>
              /\ cmp.calls[c].fd \in DOMAIN cmp.fds
              /\ cmp.fds[cmp.calls[c].fd] = cmp.calls[c].f
         /\ cmp.calls[c].pc \in {"kv", "broke"} <=> cmp.calls[c].fd # 0
    /\ (cmp.calls[1].fd # 0 /\ cmp.calls[2].fd # 0) => cmp.calls[1].fd # cmp.calls[2].fd
    /\ DOMAIN cmp.fds = {cmp.calls[c].fd : c \in DOMAIN cmp.calls} \ {0}

\* Both calls have returned, the first on a.gguf and the second on
\* b-q8_0.gguf, after a time in which both readers were open.
C19_Witness ==
  /\ cmp.st = "awaiting"
  /\ cmp.maxOpen = 2
  /\ cmp.calls[1].pc = "done"
  /\ cmp.calls[2].pc = "done"
  /\ cmp.calls[1].info.name = <<"a", ".", "g", "g", "u", "f">>
  /\ cmp.calls[2].info.name = <<"b", "-", "q", "8", "_", "0", ".", "g", "g", "u", "f">>
  /\ cmp.calls[1].info.details.architecture = Str(<<"l", "l", "a", "m", "a">>)
  /\ cmp.calls[2].info.details.architecture = Str(Qwen)

\* The paths a batch touches: those written, edited or deleted, and the
\* path and the destination of a move.
Touched ==
  UNION { IF bt.operations[k].op \in {"write", "edit", "delete"} THEN {bt.operations[k].path}
          ELSE IF bt.operations[k].op = "move"
          THEN {bt.operations[k].path, bt.operations[k].destination} \ {NoPath}
          ELSE {} : k \in 1..Len(bt.operations) }

\* C20: an atomic batch is all-or-nothing: when it returns success = false,
\* every path it touched is as it was before the batch, and a path that did
\* not exist before does not exist.
C20_AtomicRollback ==
  (bt.st = "returned" /\ bt.atomic /\ ~bt.success) =>
    \A p \in Touched : bt.fs[p] = bt.before[p]

\* An atomic batch that wrote the new file a and then failed to edit the
\* missing file b has returned success = false, and a exists.
C20_Witness ==
  /\ bt.st = "returned"
  /\ bt.atomic
  /\ ~bt.success
  /\ bt.before = [p \in Paths |-> Missing]
  /\ Len(bt.operations) = 2
  /\ bt.operations[1].op = "write"
  /\ bt.operations[1].path = "a"
  /\ bt.operations[2].op = "edit"
  /\ bt.operations[2].path = "b"
  /\ bt.fs["a"] = FileOf(<<"y">>)

\* The header size the first 8 bytes of the file declare.
DeclaredSize == UnsignedOf(readBytes(Data(file), 0, 8))

\* C21: parseSafetensors never reads tensor data: every positioned read it
\* issues ends at or before offset 8 + headerSize, and a read that asks for
\* at least one byte starts before that offset.  A header size above the
\* limit is followed by no read at all.
C21_NoPayloadRead ==
  \A k \in 1..Len(reads) :
    /\ reads[k].pos >= 0
    /\ IsSmall(reads[k].len)
    /\ reads[k].len.n >= 0
    /\ IF IsSmall(DeclaredSize)
       THEN /\ reads[k].pos + reads[k].len.n <= 8 + DeclaredSize.n
            /\ reads[k].len.n > 0 => reads[k].pos < 8 + DeclaredSize.n
       ELSE reads[k].pos + reads[k].len.n <= 8

\* A Safetensors file with tensor data behind its header has been parsed
\* with the size read and the header read.
C21_Witness ==
  /\ pc = "done"
  /\ info.format = "safetensors"
  /\ ~IsUndefined(info.details)
  /\ Len(reads) = 2
  /\ IsSmall(DeclaredSize)
  /\ DeclaredSize.n > 0
  /\ Len(Data(file)) > 8 + DeclaredSize.n
  /\ reads[2] = [pos |-> 8, len |-> DeclaredSize]

\* The bytes the encoding of a fixed-width type tag takes.
TagWidth(t) ==
  IF t \in {0, 1, 7} THEN 1
  ELSE IF t \in {2, 3} THEN 2
  ELSE IF t \in {4, 5, 6} THEN 4
  ELSE 8

\* The byte at position k of the buffer, counted from 0; 0 behind its end.
ByteAt(buf, k) == IF k < Len(buf) THEN buf[k + 1] ELSE 0

\* C22: readValue moves the cursor by exactly the bytes of the value's
\* encoding: 1 byte for tags 0, 1 and 7, 2 for tags 2 and 3, 4 for tags 4, 5
\* and 6, 8 for tags 10, 11 and 12, 8 + L for a string of L bytes, 12 plus
\* the bytes of the elements for an array that is read out; tag 7 gives true
\* exactly for a nonzero byte; a tag outside 0..12 throws with the cursor
\* where it was.
C22_ValueWidths ==
  /\ (rv.st # "called" /\ rv.src.kind = "scalar" /\ IsSmall(rv.type)
        /\ rv.type.n \in (0..12) \ {8, 9}) =>
       /\ rv.st = "returned"
       /\ rv.out.off = rv.off + TagWidth(rv.type.n)
       /\ rv.type.n = 7 => rv.out.val = [b |-> ByteAt(rv.buf, rv.off) # 0]
  /\ (rv.st # "called" /\ rv.src.kind = "string") =>
       /\ rv.st = "returned"
       /\ rv.out.off = rv.off + 8 + rv.src.len
       /\ rv.out.val = Str([j \in 1..rv.src.len |-> "s"])
  /\ (rv.st = "returned" /\ rv.src.kind = "array" /\ rv.src.whole) =>
       rv.out.off = rv.off + 12 + rv.src.width
  /\ (rv.st # "called" /\ rv.src.kind = "scalar"
        /\ (~IsSmall(rv.type) \/ rv.type.n \notin 0..12)) =>
       /\ rv.st = "thrown"
       /\ rv.out.msg.text = "Unknown GGUF type"
       /\ rv.out.off = rv.off
  /\ (rv.st = "thrown" /\ rv.src.kind = "array") =>
       /\ rv.out.msg.text = "Unknown GGUF type"
       /\ rv.out.off = rv.off + 12

\* A string of 3 bytes has been read at offset 2 and the cursor is at 13.
C22_Witness ==
  /\ rv.st = "returned"
  /\ rv.src.kind = "string"
  /\ rv.src.len = 3
  /\ rv.off = 2
  /\ rv.out.off = 13

(***************************************************************************)
(* Termination.  GGUFReader followed one read at a time: every readBytes   *)
(* of the key/value loop (editor.ts 573-621, 645-658) is a step, and an    *)
(* array in progress is a frame on a stack, as it is a frame of            *)
(* readValue's recursion.  The values read are not kept: only what the     *)
(* control flow compares (lengths, counts, type tags) is decoded.          *)
(***************************************************************************)

\* The unsigned little-endian number in the w bytes at off, exact below 2^24
\* and 2^24 from there on: the reader compares it with 12, MaxKV, MaxArrayLen
\* and MaxStringLen, all below 2^24.  Bytes behind the end of the file are 0.
LeAt(buf, off, w) ==
  IF \E k \in 3..(w - 1) : ByteAt(buf, off + k) # 0
  THEN 16777216
  ELSE ByteAt(buf, off) + 256 * ByteAt(buf, off + 1) + 65536 * ByteAt(buf, off + 2)

\* Lines 597-604, 616-618: the bytes a value of a fixed-width type takes.
ScalarWidth(type) ==
  IF type \in {0, 1, 7} THEN 1
  ELSE IF type \in {2, 3} THEN 2
  ELSE IF type \in {4, 5, 6} THEN 4
  ELSE 8

\* Lines 629-632: the magic as toString('ascii') shows it.
MagicOk(buf) == [k \in 1..4 |-> ByteAt(buf, k - 1) % 128] = GGUFBytes

\* Lines 635-638.
VersionOk(buf) == LeAt(buf, 4, 4) \in {2, 3}

\* Lines 626-646: the reader is open, the header is read, the loop begins.
\* A bad magic or version throws out of parseGGUF.
headerRead(t) ==
  IF MagicOk(t.buf) /\ VersionOk(t.buf)
  THEN [t EXCEPT !.st = "key", !.off = 24,
                 !.maxKV = IF LeAt(t.buf, 16, 8) < MaxKV THEN LeAt(t.buf, 16, 8) ELSE MaxKV]
  ELSE [t EXCEPT !.st = "failed", !.off = IF MagicOk(t.buf) THEN 8 ELSE 4]

\* A readValue call has returned: to the array loop that made it (line 611),
\* or to the key/value loop, which stores the pair and counts it (652-653).
valueReturned(t) ==
  IF t.stack = <<>>
  THEN [t EXCEPT !.st = "key", !.i = @ + 1]
  ELSE [t EXCEPT !.st = "elems"]

\* Lines 589-593 as the key of a pair (line 650).
keyRead(t) ==
  IF LeAt(t.buf, t.off, 8) > MaxStringLen
  THEN [t EXCEPT !.st = "broke", !.off = @ + 8]
  ELSE [t EXCEPT !.st = "type", !.off = @ + 8 + LeAt(t.buf, t.off, 8)]

\* Line 651: the type tag of the value.
typeRead(t) == [t EXCEPT !.st = "value", !.type = LeAt(t.buf, t.off, 4), !.off = @ + 4]

\* Lines 595-620: readValue up to its return, its throw, or the head of its
\* array loop.
valueRead(t) ==
  IF t.type \in {0, 1, 2, 3, 4, 5, 6, 7, 10, 11, 12}
  THEN valueReturned([t EXCEPT !.off = @ + ScalarWidth(t.type)])
  ELSE IF t.type = 8
  THEN IF LeAt(t.buf, t.off, 8) > MaxStringLen
       THEN [t EXCEPT !.st = "broke", !.off = @ + 8]
       ELSE valueReturned([t EXCEPT !.off = @ + 8 + LeAt(t.buf, t.off, 8)])
  ELSE IF t.type = 9
  THEN IF LeAt(t.buf, t.off + 4, 8) > MaxArrayLen
       THEN valueReturned([t EXCEPT !.off = @ + 12])
       ELSE [t EXCEPT !.st = "elems", !.off = @ + 12,
                      !.stack = Append(@, [type |-> LeAt(t.buf, t.off, 4),
                                           left |-> LeAt(t.buf, t.off + 4, 8)])]
  ELSE [t EXCEPT !.st = "broke"]

\* An array loop that goes round without counting the element.
elemForgotten(t) == t

\* Lines 610-613: the head of the array loop: the next element is read, or
\* the loop is over and the items are returned.
elemNext(t) ==
  IF t.stack[Len(t.stack)].left > 0
  THEN [t EXCEPT !.st = "value", !.type = t.stack[Len(t.stack)].type,
                 !.stack[Len(t.stack)].left = @ - 1]
  ELSE valueReturned([t EXCEPT !.stack = SubSeq(@, 1, Len(@) - 1)])

TmHeader ==
  /\ tm.st = "called"
  /\ tm' = headerRead(tm)
  /\ UNCHANGED <<file, pc, info, reader, reads, fds, exc, report, rv, ls, cmp, bt, tx, py, fc>>

TmKey ==
  /\ tm.st = "key"
  /\ tm.i < tm.maxKV
  /\ tm' = keyRead(tm)
  /\ UNCHANGED <<file, pc, info, reader, reads, fds, exc, report, rv, ls, cmp, bt, tx, py, fc>>

TmType ==
  /\ tm.st = "type"
  /\ tm' = typeRead(tm)
  /\ UNCHANGED <<file, pc, info, reader, reads, fds, exc, report, rv, ls, cmp, bt, tx, py, fc>>

TmValue ==
  /\ tm.st = "value"
  /\ tm' = valueRead(tm)
  /\ UNCHANGED <<file, pc, info, reader, reads, fds, exc, report, rv, ls, cmp, bt, tx, py, fc>>

TmElem ==
  /\ tm.st = "elems"
  /\ tm' = elemNext(tm)
  /\ UNCHANGED <<file, pc, info, reader, reads, fds, exc, report, rv, ls, cmp, bt, tx, py, fc>>

\* Lines 655-657 and 660-704: the loop is left, by its bound or by a throw
\* inside it; the result is built, the reader closed.
TmFinish ==
  /\ \/ tm.st = "key" /\ tm.i >= tm.maxKV
     \/ tm.st = "broke"
  /\ tm' = [tm EXCEPT !.st = "returned", !.stack = <<>>]
  /\ UNCHANGED <<file, pc, info, reader, reads, fds, exc, report, rv, ls, cmp, bt, tx, py, fc>>

\* Key/value sections: plain pairs; nested arrays; a placeholder array before
\* a pair; a string or a key longer than MaxStringLen; an unknown type, alone
\* and as the type of an array's elements.
TmSections ==
  { <<>>,
    EncStr(<<"a">>) \o U32(4) \o U32(7) \o EncStr(<<"b">>) \o U32(8) \o EncStr(<<"h", "i">>),
    EncStr(<<"c">>) \o U32(9) \o U32(0) \o U64(2) \o <<1, 2>> \o EncStr(<<"e">>) \o U32(10) \o U64(5),
    EncStr(<<"g">>) \o U32(9) \o U32(9) \o U64(2)
       \o (U32(0) \o U64(2) \o <<1, 2>>) \o (U32(8) \o U64(1) \o EncStr(<<"h", "i">>)),
    EncStr(<<"g">>) \o U32(9) \o U32(9) \o U64(MaxArrayCount)
       \o U32(9) \o U64(MaxArrayCount) \o U32(9) \o U64(MaxArrayCount),
    EncStr(<<"d">>) \o U32(9) \o U32(0) \o U64(MaxArrayLen + 1) \o EncStr(<<"a">>) \o U32(4) \o U32(7),
    EncStr(<<"y">>) \o U32(8) \o AllOnes64,
    EncStr(<<"s">>) \o U32(8) \o U64(MaxStringLen),
    U64(MaxStringLen + 1),
    EncStr(<<"x">>) \o U32(13),
    EncStr(<<"z">>) \o U32(9) \o U32(13) \o U64(1) }

\* An array of MaxArrayLen elements, the largest that is read out, in a file
\* that ends behind the array's header.
LongArrayFile ==
  GGUFBytes \o U32(3) \o U64(0) \o U64(1)
    \o EncStr(<<"n">>) \o U32(9) \o U32(0) \o U64(MaxArrayLen)

\* Files: a header declaring 0, 1, 2, MaxKV + 1 or 2^64 - 1 pairs before each
\* section, the long array, and files that are not GGUF or of another version.
TmFiles ==
  { GGUFBytes \o U32(3) \o U64(0) \o kv \o s :
      kv \in {U64(0), U64(1), U64(2), U64(MaxKV + 1), AllOnes64}, s \in TmSections }
  \cup { LongArrayFile, <<>>, <<1, 2, 3, 4, 5>>, GGUFBytes \o U32(1) \o U64(0) \o U64(1),
         <<199, 71, 85, 70>> \o U32(2) \o U64(0) \o U64(1) \o EncStr(<<"a">>) \o U32(0) \o <<9>> }

InitTm ==
  /\ file = [path |-> <<>>, exists |-> FALSE, data |-> <<>>, src |-> [kind |-> "none"]]
  /\ pc = "parseGGUF"
  /\ info = NoInfo
  /\ reader = NoReader
  /\ reads = <<>>
  /\ fds = NoFds
  /\ exc = NoException
  /\ report = <<>>
  /\ rv = IdleRv
  /\ ls = IdleLs
  /\ cmp = IdleCmp
  /\ bt = IdleBt
  /\ tx = IdleTx
  /\ py = IdlePy
  /\ fc = IdleFc
  /\ \E b \in TmFiles :
       tm = [st |-> "called", buf |-> b, off |-> 0, i |-> 0, maxKV |-> 0,
             type |-> 0, stack |-> <<>>]

NextTm ==
  \/ TmHeader
  \/ TmKey
  \/ TmType
  \/ TmValue
  \/ TmElem
  \/ TmFinish

\* parseGGUF is synchronous after its first await: once started, each of its
\* steps runs as soon as the one before it has ended.
SpecTm == InitTm /\ [][NextTm]_vars /\ WF_vars(NextTm)

TmEnded == tm.st \in {"returned", "failed"}

\* C23: on every file the call ends, with a result or with an error; the
\* key/value loop makes at most MaxKV passes, and no array loop is entered
\* with more than MaxArrayLen elements to read.
C23_Terminates ==
  /\ [](tm.i <= MaxKV)
  /\ [](\A k \in 1..Len(tm.stack) : tm.stack[k].left <= MaxArrayLen)
  /\ <>TmEnded

\* The file that declares 2^64 - 1 pairs and holds an array of arrays: the
\* loop has made MaxKV passes, most of them on bytes behind the end of the
\* file, and the call has returned.
C23_Witness ==
  /\ tm.st = "returned"
  /\ tm.i = MaxKV
  /\ LeAt(tm.buf, 16, 8) > MaxKV
  /\ LeAt(tm.buf, 24 + 9, 4) = 9 /\ LeAt(tm.buf, 24 + 13, 4) = 9

(***************************************************************************)
(* The cursor of the key/value loop.                                       *)
(***************************************************************************)

\* Where pair number i + 1 of a well-formed file begins.
PairStart(f, i) ==
  IF f.src.kind = "held"
  THEN IF i = 0 THEN 24
       ELSE IF i = 1 THEN 24 + Len(HeldArray(f.src.elem))
       ELSE Len(HeldBytes(f.src.elem))
  ELSE 24 + Len(EncPairs(SubSeq(f.src.pairs, 1, i)))

\* C25: whenever the key/value loop of a well-formed file is at its head, the
\* cursor is at the first byte of the next pair (or at the end of the file
\* when no pair is left).
C25_CursorAtPair ==
  (pc = "kv" /\ file.src.kind \in {"list", "held"})
    => reader.offset = PairStart(file, reader.i)

\* The array of MaxArrayLen + 1 bytes has been replaced by its placeholder and
\* the cursor is at the first of its bytes, MaxArrayLen + 1 before the pair
\* that follows.
C25_Witness ==
  /\ pc = "kv"
  /\ file.src.kind = "held"
  /\ reader.i = 1
  /\ "ph" \in DOMAIN ObjGet(reader.metadata, <<"t">>)
  /\ reader.offset = 24 + 25
  /\ PairStart(file, 1) = reader.offset + MaxArrayLen + 1

(***************************************************************************)
(* Entries and the end of the file.                                        *)
(***************************************************************************)

\* C26: every pair the key/value loop has stored was read from bytes of the
\* file: the cursor behind a stored pair is not behind the end of the file.
C26_EntriesFromFile ==
  (pc = "kv" /\ reader.i > 0) => reader.offset <= Len(Data(file))

\* A file that ends with its 24-byte header and declares 3 pairs: the result
\* holds the entry "" = 0, stored 3 times from bytes the file does not have.
C26_Witness ==
  /\ pc = "done"
  /\ file.src.kind = "truncated"
  /\ Len(Data(file)) = 24
  /\ reader.i = 3
  /\ reader.offset = 24 + 3 * 13
  /\ ~IsUndefined(info.details)
  /\ info.details.metadata = ObjSet(<<>>, <<>>, [n |-> 0])

(***************************************************************************)
(* Descriptors.                                                            *)
(***************************************************************************)

\* C27: a call never has more than one descriptor, never closes more than it
\* opened, and has closed what it opened once its parser has returned or
\* thrown; a model file that exists has then been opened and closed once.
C27_DescriptorsClosed ==
  /\ fds.closed <= fds.opened
  /\ fds.opened <= 1
  /\ pc \in {"done", "catch", "thrown", "reported"} => fds.closed = fds.opened
  /\ (Returned /\ file.exists /\ (IsGgufPath \/ IsSafetensorsPath))
       => fds = [opened |-> 1, closed |-> 1]

\* A GGUF parser has thrown and the error has been reported: the descriptor
\* it opened is closed.
C27_Witness ==
  /\ pc = "reported"
  /\ exc.st = "caught"
  /\ info.format = "gguf"
  /\ ~IsUndefined(info.error)
  /\ fds = [opened |-> 1, closed |-> 1]

(***************************************************************************)
(* Every pattern of the list.                                              *)
(***************************************************************************)

\* C28: a file named x-<pattern>.gguf, for any pattern of the list, is
\* reported with that pattern in upper case; so x-bf16.gguf as BF16.
C28_EveryPatternReported ==
  \A k \in 1..Len(quantPatterns) :
    (Returned /\ file.path = PatternPath(k) /\ ~IsUndefined(info.details))
      => info.details.quantization = Str(toUpperCase(quantPatterns[k]))

\* x-bf16.gguf has been reported as F16: the name holds f16, which comes
\* before bf16 in the list.
C28_Witness ==
  /\ pc = "done"
  /\ file.path = PatternPath(14)
  /\ quantPatterns[14] = <<"b", "f", "1", "6">>
  /\ ~IsUndefined(info.details)
  /\ info.details.quantization = Str(<<"F", "1", "6">>)

(***************************************************************************)
(* TransactionManager (transaction.ts): one transaction over the files a   *)
(* and b; begin() has been called, operations are added, commit runs them. *)
(***************************************************************************)

MaxTxOps == 2

TxOp(type, path, newPath, content) ==
  [type |-> type, path |-> path, newPath |-> newPath, content |-> content]

\* Reads, writes and edits with content, without content and with the empty
\* string, deletes, and moves with and without newPath.
TxOperations ==
  { TxOp("read", p, NoPath, Undefined) : p \in Paths }
  \cup { TxOp(t, p, NoPath, c) :
           t \in {"write", "edit"}, p \in Paths, c \in {Undefined, Str(<<>>), Str(<<"y">>)} }
  \cup { TxOp("delete", p, NoPath, Undefined) : p \in Paths }
  \cup { TxOp("move", p, CHOOSE d \in Paths : d # p, Undefined) : p \in Paths }
  \cup { TxOp("move", p, NoPath, Undefined) : p \in Paths }

\* Lines 80-95: the file's content or its absence is recorded under its path,
\* once per path.
createBackup(backups, fs, filePath) ==
  IF \E k \in 1..Len(backups) : backups[k].path = filePath THEN backups
  ELSE IF fs[filePath].exists
  THEN Append(backups, [path |-> filePath, content |-> fs[filePath].content, existed |-> TRUE])
  ELSE Append(backups, [path |-> filePath, content |-> <<>>, existed |-> FALSE])

\* Lines 129-163: one operation on the files, or its rejection.
txExecuteOperation(fs, op) ==
  IF op.type \in {"write", "edit"}
  THEN IF ~Truthy(op.content) THEN [ok |-> FALSE, fs |-> fs, msg |-> "requires content"]
       ELSE [ok |-> TRUE, fs |-> writeFile(fs, op.path, op.content.s)]
  ELSE IF op.type = "delete"
  THEN IF fs[op.path].exists THEN [ok |-> TRUE, fs |-> [fs EXCEPT ![op.path] = Missing]]
       ELSE [ok |-> FALSE, fs |-> fs, msg |-> "ENOENT"]
  ELSE IF op.type = "move"
  THEN IF op.newPath = NoPath THEN [ok |-> FALSE, fs |-> fs, msg |-> "requires newPath"]
       ELSE IF fs[op.path].exists
       THEN [ok |-> TRUE, fs |-> [fs EXCEPT ![op.newPath] = fs[op.path], ![op.path] = Missing]]
       ELSE [ok |-> FALSE, fs |-> fs, msg |-> "ENOENT"]
  ELSE [ok |-> TRUE, fs |-> fs]

RECURSIVE restoreBackup(_, _)

\* Lines 178-183: one backup is put back.
restoreOne(fs, backup) ==
  IF backup.existed THEN writeFile(fs, backup.path, backup.content)
  ELSE [fs EXCEPT ![backup.path] = Missing]

\* Lines 176-187: the backups are restored in the order they were made: a
\* file that existed is written back, one that did not is unlinked.
restoreBackup(fs, backups) ==
  IF backups = <<>> THEN fs
  ELSE restoreBackup(restoreOne(fs, Head(backups)), Tail(backups))

\* Lines 60-75: addOperation on the open transaction.
TxAddOperation ==
  /\ tx.st = "open"
  /\ Len(tx.operations) < MaxTxOps
  /\ \E op \in TxOperations :
       tx' = [tx EXCEPT !.operations = Append(@, op),
                        !.backups = IF op.type # "read"
                                    THEN createBackup(@, tx.fs, op.path) ELSE @]
  /\ UNCHANGED <<file, pc, info, reader, reads, fds, exc, report, rv, ls, cmp, bt, tm, py, fc>>

\* Lines 100-109: commit finds the transaction and starts on its operations.
TxCommit ==
  /\ tx.st = "open"
  /\ tx' = [tx EXCEPT !.st = "commit", !.before = tx.fs, !.k = 1]
  /\ UNCHANGED <<file, pc, info, reader, reads, fds, exc, report, rv, ls, cmp, bt, tm, py, fc>>

\* Lines 111-113 and 119: the next operation is executed; its rejection
\* enters the catch clause.
TxExecute ==
  /\ tx.st = "commit"
  /\ tx.k <= Len(tx.operations)
  /\ \E r \in {txExecuteOperation(tx.fs, tx.operations[tx.k])} :
       IF r.ok
       THEN tx' = [tx EXCEPT !.fs = r.fs, !.k = @ + 1]
       ELSE tx' = [tx EXCEPT !.st = "catch", !.error = r.msg]
  /\ UNCHANGED <<file, pc, info, reader, reads, fds, exc, report, rv, ls, cmp, bt, tm, py, fc>>

\* Lines 115-118: every operation is done; commit resolves and the timer of
\* the cleanup is set.
TxResolve ==
  /\ tx.st = "commit"
  /\ tx.k > Len(tx.operations)
  /\ tx' = [tx EXCEPT !.st = "resolved", !.completed = TRUE]
  /\ UNCHANGED <<file, pc, info, reader, reads, fds, exc, report, rv, ls, cmp, bt, tm, py, fc>>

\* Lines 118 and 199-201: five seconds later the transaction is forgotten.
TxCleanup ==
  /\ tx.st = "resolved"
  /\ tx.active
  /\ tx' = [tx EXCEPT !.active = FALSE]
  /\ UNCHANGED <<file, pc, info, reader, reads, fds, exc, report, rv, ls, cmp, bt, tm, py, fc>>

\* Lines 119-123 and 168-194: rollback restores the backups, marks the
\* transaction and forgets it; commit rejects with the error.
TxRollback ==
  /\ tx.st = "catch"
  /\ tx' = [tx EXCEPT !.st = "rejected", !.fs = restoreBackup(tx.fs, tx.backups),
                      !.rolledBack = TRUE, !.completed = TRUE, !.active = FALSE]
  /\ UNCHANGED <<file, pc, info, reader, reads, fds, exc, report, rv, ls, cmp, bt, tm, py, fc>>

InitTx ==
  /\ file = [path |-> <<>>, exists |-> FALSE, data |-> <<>>, src |-> [kind |-> "none"]]
  /\ pc = "transaction"
  /\ info = NoInfo
  /\ reader = NoReader
  /\ reads = <<>>
  /\ fds = NoFds
  /\ exc = NoException
  /\ report = <<>>
  /\ rv = IdleRv
  /\ ls = IdleLs
  /\ cmp = IdleCmp
  /\ bt = IdleBt
  /\ tm = IdleTm
  /\ py = IdlePy
  /\ fc = IdleFc
  /\ \E fs \in FileSystems :
       tx = [st |-> "open", fs |-> fs, before |-> fs, operations |-> <<>>, backups |-> <<>>,
             k |-> 0, completed |-> FALSE, rolledBack |-> FALSE, active |-> TRUE,
             error |-> ""]

NextTx ==
  \/ TxAddOperation
  \/ TxCommit
  \/ TxExecute
  \/ TxResolve
  \/ TxCleanup
  \/ TxRollback

SpecTx == InitTx /\ [][NextTx]_vars

\* The paths the transaction touches: the path of every operation and the
\* newPath of every move.
TxTouched(operations) ==
  { operations[k].path : k \in 1..Len(operations) }
  \cup { operations[k].newPath :
           k \in {j \in 1..Len(operations) :
                    operations[j].type = "move" /\ operations[j].newPath # NoPath} }

\* C24: once commit has rejected, every touched file is as it was before the
\* commit, and the transaction is rolled back, completed and forgotten.
C24_RolledBack ==
  tx.st = "rejected" =>
    /\ \A p \in TxTouched(tx.operations) : tx.fs[p] = tx.before[p]
    /\ tx.rolledBack
    /\ tx.completed
    /\ ~tx.active

\* a has been moved to b, which did not exist; the delete of a that follows
\* has failed; after the rollback a is back and b is still there.
C24_Witness ==
  /\ tx.st = "rejected"
  /\ tx.operations = << TxOp("move", "a", "b", Undefined), TxOp("delete", "a", NoPath, Undefined) >>
  /\ tx.before = [p \in Paths |-> IF p = "a" THEN FileOf(<<"x", "x">>) ELSE Missing]
  /\ tx.fs = [p \in Paths |-> FileOf(<<"x", "x">>)]
  /\ tx.rolledBack /\ tx.completed /\ ~tx.active

(***************************************************************************)
(* PythonSessionManager (python-session.ts): the calls of execute on one   *)
(* session id.  The Python process reads one request line at a time and    *)
(* answers each with one line; a line arrives at the stdout handler as one *)
(* chunk.                                                                  *)
(***************************************************************************)

MaxCalls == 3

Codes == {"p", "q"}

\* No call.
NoCall == 0

\* Lines 57-75 of the wrapper script: the answer to one request line.
\* `req` records which call wrote the request.
ResponseTo(request) == [req |-> request.req, code |-> request.code]

\* Lines 104-122: the stdout handler.  Without a resolver the data is
\* ignored; with one, the line is parsed, the session's timer cleared, the
\* resolver called with the response and forgotten.
onData(s, response) ==
  IF s.resolve = NoCall THEN s
  ELSE [s EXCEPT !.calls[s.resolve].st = "resolved",
                 !.calls[s.resolve].result = response,
                 !.timers = @ \ {s.timer},
                 !.resolve = NoCall]

\* Lines 134-164: execute.  The session is created when it is missing; a
\* session with a resolver is busy; otherwise the call becomes the
\* session's resolver, its request is written to stdin and its timer set.
PyExecute ==
  /\ py.st = "running"
  /\ Len(py.calls) < MaxCalls
  /\ \E code \in Codes :
       IF py.resolve # NoCall
       THEN py' = [py EXCEPT !.calls = Append(@, [code |-> code, st |-> "busy",
                                                    result |-> Undefined])]
       ELSE py' = [py EXCEPT !.calls = Append(@, [code |-> code, st |-> "pending",
                                                    result |-> Undefined]),
                             !.created = TRUE,
                             !.resolve = Len(py.calls) + 1,
                             !.stdin = Append(@, [req |-> Len(py.calls) + 1, code |-> code]),
                             !.timer = Len(py.calls) + 1,
                             !.timers = @ \cup {Len(py.calls) + 1}]
  /\ UNCHANGED <<file, pc, info, reader, reads, fds, exc, report, rv, ls, cmp, bt, tm, tx, fc>>

\* The wrapper's loop: the next request line is read, run and answered.
PyRespond ==
  /\ py.st = "running"
  /\ py.stdin # <<>>
  /\ py' = [py EXCEPT !.stdin = Tail(@), !.stdout = Append(@, ResponseTo(Head(py.stdin)))]
  /\ UNCHANGED <<file, pc, info, reader, reads, fds, exc, report, rv, ls, cmp, bt, tm, tx, fc>>

\* Lines 104-122: a chunk of stdout reaches the handler.
PyData ==
  /\ py.st = "running"
  /\ py.stdout # <<>>
  /\ py' = [onData(py, Head(py.stdout)) EXCEPT !.stdout = Tail(py.stdout)]
  /\ UNCHANGED <<file, pc, info, reader, reads, fds, exc, report, rv, ls, cmp, bt, tm, tx, fc>>

\* Lines 156-161: the timer of a call fires: the session's resolver is
\* forgotten and the call rejected.
PyTimeout ==
  /\ py.st = "running"
  /\ \E c \in py.timers :
       py' = [py EXCEPT !.timers = @ \ {c},
                        !.resolve = NoCall,
                        !.calls[c].st = IF @ = "pending" THEN "timeout" ELSE @]
  /\ UNCHANGED <<file, pc, info, reader, reads, fds, exc, report, rv, ls, cmp, bt, tm, tx, fc>>

InitPy ==
  /\ file = [path |-> <<>>, exists |-> FALSE, data |-> <<>>, src |-> [kind |-> "none"]]
  /\ pc = "python"
  /\ info = NoInfo
  /\ reader = NoReader
  /\ reads = <<>>
  /\ fds = NoFds
  /\ exc = NoException
  /\ report = <<>>
  /\ rv = IdleRv
  /\ ls = IdleLs
  /\ cmp = IdleCmp
  /\ bt = IdleBt
  /\ tm = IdleTm
  /\ tx = IdleTx
  /\ fc = IdleFc
  /\ \E none \in {NoCall} :
       py = [st |-> "running", created |-> FALSE, resolve |-> none, timer |-> none,
             timers |-> {}, stdin |-> <<>>, stdout |-> <<>>, calls |-> <<>>]

NextPy ==
  \/ PyExecute
  \/ PyRespond
  \/ PyData
  \/ PyTimeout

SpecPy == InitPy /\ [][NextPy]_vars

\* C29: a call of execute that has resolved holds the response to the request
\* it wrote itself, and at most one call is waiting at any time.
C29_OwnResponse ==
  py.st = "running" =>
    /\ \A c \in 1..Len(py.calls) :
         py.calls[c].st = "resolved" =>
           /\ py.calls[c].result.req = c
           /\ py.calls[c].result.code = py.calls[c].code
    /\ Cardinality({c \in 1..Len(py.calls) : py.calls[c].st = "pending"}) <= 1

\* The first call ran code p and timed out; the second ran code q and has
\* resolved with the response to p.
C29_Witness ==
  /\ py.st = "running"
  /\ Len(py.calls) >= 2
  /\ py.calls[1] = [code |-> "p", st |-> "timeout", result |-> Undefined]
  /\ py.calls[2] = [code |-> "q", st |-> "resolved", result |-> [req |-> 1, code |-> "p"]]

(***************************************************************************)
(* FileReader.read (editor.ts 103-127), CacheManager.get (cache.ts 47-100) *)
(* and FileWriter.write (writer.ts 18-50) over one path, one call after    *)
(* the other.  A string is the sequence of its code points; the disk holds *)
(* bytes.                                                                  *)
(***************************************************************************)

MaxCallsFc == 3

Encodings == {"utf8", "latin1"}

\* U+FFFD, what the utf8 decoder puts for a byte that begins no character.
Replacement == 65533

IsContinuation(b) == b >= 128 /\ b <= 191

\* buffer.toString('utf8') for characters of one and two bytes: a byte that
\* is neither is replaced.  (No file of the model has a longer lead byte
\* before a continuation byte.)
RECURSIVE decodeUtf8(_, _)
decodeUtf8(bytes, k) ==
  IF k > Len(bytes) THEN <<>>
  ELSE IF bytes[k] < 128 THEN <<bytes[k]>> \o decodeUtf8(bytes, k + 1)
  ELSE IF bytes[k] >= 194 /\ bytes[k] <= 223 /\ k < Len(bytes) /\ IsContinuation(bytes[k + 1])
  THEN <<(bytes[k] - 192) * 64 + (bytes[k + 1] - 128)>> \o decodeUtf8(bytes, k + 2)
  ELSE <<Replacement>> \o decodeUtf8(bytes, k + 1)

\* fs.readFile(path, { encoding }): 'latin1' gives one character per byte.
decode(bytes, encoding) ==
  IF encoding = "latin1" THEN bytes ELSE decodeUtf8(bytes, 1)

RECURSIVE encodeUtf8(_, _)
encodeUtf8(str, k) ==
  IF k > Len(str) THEN <<>>
  ELSE IF str[k] < 128 THEN <<str[k]>> \o encodeUtf8(str, k + 1)
  ELSE <<192 + (str[k] \div 64), 128 + (str[k] % 64)>> \o encodeUtf8(str, k + 1)

\* fs.writeFile(path, content, encoding) for characters below U+0800:
\* 'latin1' keeps the low byte of each character.
encode(str, encoding) ==
  IF encoding = "latin1" THEN [k \in 1..Len(str) |-> str[k] % 256] ELSE encodeUtf8(str, 1)

\* content.split('\n') then join('\n') over all lines (editor.ts 161-181
\* with offset 0 and no length): the lines, and the text put together again.
RECURSIVE splitLines(_, _, _)
splitLines(content, k, line) ==
  IF k > Len(content) THEN <<line>>
  ELSE IF content[k] = 10 THEN <<line>> \o splitLines(content, k + 1, <<>>)
  ELSE splitLines(content, k + 1, Append(line, content[k]))

RECURSIVE joinLines(_, _)
joinLines(lines, k) ==
  IF k > Len(lines) THEN <<>>
  ELSE IF k = Len(lines) THEN lines[k]
  ELSE lines[k] \o <<10>> \o joinLines(lines, k + 1)

applyPagination(content, size) ==
  [st |-> "ok", content |-> joinLines(splitLines(content, 1, <<>>), 1),
   size |-> size, lines |-> Len(splitLines(content, 1, <<>>))]

NoEntry == [has |-> FALSE]

\* cache.ts 82-100: the entry read from the disk.
readFromDisk(disk, encoding) ==
  [has |-> TRUE, content |-> decode(disk.bytes, encoding), size |-> Len(disk.bytes),
   mtime |-> disk.mtime, encoding |-> encoding]

\* cache.ts 47-77: the entry of the path when the file's mtime and size are
\* as recorded, else the entry read from the disk (which is then cached).
cacheGet(cache, disk, encoding) ==
  IF cache.has /\ cache.mtime = disk.mtime /\ cache.size = Len(disk.bytes)
  THEN cache
  ELSE readFromDisk(disk, encoding)

\* editor.ts 103-127: read with an encoding, no offset, no length.  stat
\* rejects for a missing file; every file of the model is below 10 MB.
FcRead ==
  /\ fc.st = "ready"
  /\ fc.n < MaxCallsFc
  /\ \E e \in Encodings :
       IF ~fc.disk.exists
       THEN fc' = [fc EXCEPT !.n = @ + 1, !.last = [st |-> "ENOENT", encoding |-> e]]
       ELSE \E entry \in {cacheGet(fc.cache, fc.disk, e)} :
              fc' = [fc EXCEPT !.n = @ + 1,
                               !.cache = entry,
                               !.hit = (entry = fc.cache),
                               !.last = [applyPagination(entry.content, Len(fc.disk.bytes))
                                           EXCEPT !.st = "ok"] @@ [encoding |-> e]]
  /\ UNCHANGED <<file, pc, info, reader, reads, fds, exc, report, rv, ls, cmp, bt, tm, tx, py>>

\* writer.ts 18-46: content below 1 MB is written or appended, then the
\* path's entry is dropped from the cache.
FcWrite ==
  /\ fc.st = "ready"
  /\ fc.n < MaxCallsFc
  /\ \E str \in { <<65>>, <<233>>, <<66, 10, 233>> }, e \in Encodings,
        mode \in {"rewrite", "append"} :
       fc' = [fc EXCEPT !.n = @ + 1,
                        !.disk = [exists |-> TRUE,
                                  bytes |-> IF mode = "append" /\ fc.disk.exists
                                            THEN fc.disk.bytes \o encode(str, e)
                                            ELSE encode(str, e),
                                  mtime |-> fc.disk.mtime + 1],
                        !.cache = NoEntry,
                        !.hit = FALSE,
                        !.last = [st |-> "written", encoding |-> e]]
  /\ UNCHANGED <<file, pc, info, reader, reads, fds, exc, report, rv, ls, cmp, bt, tm, tx, py>>

\* cache.ts 39: an entry is dropped five minutes after its last use.
FcExpire ==
  /\ fc.st = "ready"
  /\ fc.cache.has
  /\ fc' = [fc EXCEPT !.cache = NoEntry]
  /\ UNCHANGED <<file, pc, info, reader, reads, fds, exc, report, rv, ls, cmp, bt, tm, tx, py>>

InitFc ==
  /\ file = [path |-> <<>>, exists |-> FALSE, data |-> <<>>, src |-> [kind |-> "none"]]
  /\ pc = "read"
  /\ info = NoInfo
  /\ reader = NoReader
  /\ reads = <<>>
  /\ fds = NoFds
  /\ exc = NoException
  /\ report = <<>>
  /\ rv = IdleRv
  /\ ls = IdleLs
  /\ cmp = IdleCmp
  /\ bt = IdleBt
  /\ tm = IdleTm
  /\ tx = IdleTx
  /\ py = IdlePy
  /\ \E d \in { [exists |-> FALSE, bytes |-> <<>>, mtime |-> 0] }
              \cup { [exists |-> TRUE, bytes |-> b, mtime |-> 0] :
                       b \in { <<>>, <<65>>, <<195, 169>>, <<65, 10, 169>> } } :
       fc = [st |-> "ready", disk |-> d, cache |-> NoEntry, hit |-> FALSE, n |-> 0,
             last |-> [st |-> "none"]]

NextFc ==
  \/ FcRead
  \/ FcWrite
  \/ FcExpire

SpecFc == InitFc /\ [][NextFc]_vars

\* C30: a read that has returned holds the file's content of that moment,
\* decoded with the encoding the read asked for.
C30_ReadIsCurrent ==
  (fc.st = "ready" /\ fc.last.st = "ok")
    => fc.last.content = decode(fc.disk.bytes, fc.last.encoding)

\* The bytes C3 A9 were read as utf8 and then as latin1: the second read was
\* served from the cache and returned the one character U+00E9, where latin1
\* gives the two characters U+00C3 U+00A9.
C30_Witness ==
  /\ fc.st = "ready"
  /\ fc.disk.bytes = <<195, 169>>
  /\ fc.last.st = "ok"
  /\ fc.last.encoding = "latin1"
  /\ fc.hit
  /\ fc.last.content = <<233>>
  /\ decode(fc.disk.bytes, "latin1") = <<195, 169>>
====
